---- MODULE Spec2Model ----
(***************************************************************************)
(* Model of the pipeline builder InterpreterSelectQuery                    *)
(* (src/unnamed/part_000): construction (init), executeImpl and the        *)
(* execute* steps that attach operators to the Pipeline, plus the          *)
(* semantics of the operators whose composition the properties are about.  *)
(***************************************************************************)
EXTENDS Integers, Sequences, FiniteSets, TLC

(***************************************************************************)
(* QueryProcessingStage::Enum, ordered FetchColumns < WithMergeableState   *)
(* < Complete.                                                             *)
(***************************************************************************)
FetchColumns == 0
WithMergeableState == 1
Complete == 2
Stages == {FetchColumns, WithMergeableState, Complete}

(***************************************************************************)
(* Bounds of the model.                                                    *)
(***************************************************************************)
MaxStreams == 2
MaxLimit == 2
MaxDepth == 2
MaxColumns == 2
MaxChains == 2
MaxRows == 3
MaxVal == 2
MaxSets == 2

(***************************************************************************)
(* Operators (block input streams) are trees: op is the stream class,      *)
(* tag the expression program or filter column it was built with, arg its  *)
(* numeric constructor arguments, in its child streams, extremes the flag  *)
(* set by enableExtremes().                                                *)
(***************************************************************************)
Node(op, tag, arg, in) ==
    [op |-> op, tag |-> tag, arg |-> arg, in |-> in, extremes |-> FALSE]

Leaf(op, i) == Node(op, "", <<i>>, <<>>)

Bit(b) == IF b THEN 1 ELSE 0

RECURSIVE SubNodes(_)
\* the set of all sub-trees of n, n included
SubNodes(n) ==
    {n} \cup UNION {SubNodes(n.in[i]) : i \in 1..Len(n.in)}

SeqToSet(s) == {s[i] : i \in 1..Len(s)}

(***************************************************************************)
(* Pipeline: streams and streams_with_non_joined_data.                     *)
(***************************************************************************)
EmptyPipeline == [streams |-> <<>>, streams_with_non_joined_data |-> <<>>]

firstStream(p) == p.streams[1]

hasMoreThanOneStream(p) ==
    Len(p.streams) + Len(p.streams_with_non_joined_data) > 1

\* streams.resize(1) followed by firstStream() = s
setSingleStream(p, s) ==
    [streams |-> <<s>>, streams_with_non_joined_data |-> <<>>]

\* stream = std::make_shared<op>(stream, ...)
Wrap(op, tag, arg, s) == Node(op, tag, arg, <<s>>)

WrapAll(op, tag, arg, streams) ==
    [i \in 1..Len(streams) |-> Wrap(op, tag, arg, streams[i])]

\* Pipeline::transform with the lambda that replaces each stream by a new
\* stream of class op over it; it runs over both lists of streams
transform(p, op, tag, arg) ==
    [streams |-> WrapAll(op, tag, arg, p.streams),
     streams_with_non_joined_data |->
         WrapAll(op, tag, arg, p.streams_with_non_joined_data)]

(***************************************************************************)
(* executeUnion                                                            *)
(***************************************************************************)
executeUnionNoFold(p, max_streams) ==
    IF Len(p.streams) + Len(p.streams_with_non_joined_data) <= 1
    THEN p
    ELSE setSingleStream(p,
            Node("Union", "", <<max_streams, Len(p.streams_with_non_joined_data)>>,
                 p.streams \o p.streams_with_non_joined_data))

executeUnion(p, max_streams) ==
    LET n == Len(p.streams) + Len(p.streams_with_non_joined_data)
    IN  IF n = 0 THEN p
        ELSE IF n = 1
        THEN IF Len(p.streams) = 1 THEN p
             ELSE [streams |-> p.streams \o <<p.streams_with_non_joined_data[1]>>,
                   streams_with_non_joined_data |-> <<>>]
        ELSE setSingleStream(p,
                Node("Union", "", <<max_streams, Len(p.streams_with_non_joined_data)>>,
                     p.streams \o p.streams_with_non_joined_data))

(***************************************************************************)
(* size_t arithmetic.  Row counts and LIMIT literals are UInt64 in the     *)
(* program; the model keeps the wrap-around at a reduced width.            *)
(***************************************************************************)
SizeModulus == 8
SizeMax == SizeModulus - 1
SizeAdd(a, b) == (a + b) % SizeModulus

(***************************************************************************)
(* getLimitLengthAndOffset                                                 *)
(***************************************************************************)
getLimitLength(q) == IF q.has_limit THEN q.limit_length ELSE 0

getLimitOffset(q) == IF q.has_limit THEN q.limit_offset ELSE 0

LimitSum(q) == SizeAdd(getLimitLength(q), getLimitOffset(q))

(***************************************************************************)
(* getLimitForSorting                                                      *)
(***************************************************************************)
getLimitForSorting(q) ==
    IF ~q.distinct /\ ~q.limit_by THEN LimitSum(q) ELSE 0

(***************************************************************************)
(* The execute* steps.  Each maps the Pipeline to the Pipeline after the   *)
(* step; q is the query, st the settings, max_streams the member.          *)
(***************************************************************************)
executeWhere(p) ==
    transform(p, "Filter", "where", <<>>)

executeHaving(p) ==
    transform(p, "Filter", "having", <<>>)

executeExpression(p, program) ==
    transform(p, "Expression", program, <<>>)

executeProjection(p) == executeExpression(p, "final_projection")

\* the join program is applied to pipeline.streams only
executeJoin(p, q) ==
    LET side == IF q.join \in {"Full", "Right"}
                THEN <<Node("NonJoined", "before_join", <<>>, <<>>)>>
                ELSE <<>>
    IN  [streams |-> WrapAll("Expression", "before_join", <<>>, p.streams),
         streams_with_non_joined_data |-> p.streams_with_non_joined_data \o side]

executeAggregationOfFirstStream(p0, st, max_streams, overflow_row, final) ==
    LET p == executeExpression(p0, "before_aggregation")
    IN  setSingleStream(p,
           Node("Aggregating", "", <<Bit(final), Bit(overflow_row), 0>>,
                <<Node("Concat", "", <<>>, <<p.streams[1]>>)>>))

executeAggregation(p0, st, max_streams, overflow_row, final) ==
    LET p == executeExpression(p0, "before_aggregation")
        two_level == Len(p.streams) > 1 \/ st.max_bytes_before_external_group_by # 0
        arg == <<Bit(final), Bit(overflow_row), Bit(two_level)>>
    IN  IF Len(p.streams) > 1 \/ Len(p.streams_with_non_joined_data) > 1
        THEN setSingleStream(p,
                Node("ParallelAggregating", "",
                     arg \o <<max_streams, Len(p.streams_with_non_joined_data)>>,
                     p.streams \o p.streams_with_non_joined_data))
        ELSE LET inputs ==
                     (IF p.streams # <<>> THEN <<p.streams[1]>> ELSE <<>>)
                     \o (IF p.streams_with_non_joined_data # <<>>
                         THEN <<p.streams_with_non_joined_data[1]>> ELSE <<>>)
             IN  setSingleStream(p,
                    Node("Aggregating", "", arg,
                         <<Node("Concat", "", <<>>, inputs)>>))

executeMergeAggregated(p, st, max_streams, overflow_row, final) ==
    LET arg == <<Bit(final), Bit(overflow_row)>>
    IN  IF ~st.distributed_aggregation_memory_efficient
        THEN LET u == executeUnion(p, max_streams)
             IN  [u EXCEPT !.streams[1] =
                      Wrap("MergingAggregated", "", arg, u.streams[1])]
        ELSE [p EXCEPT !.streams =
                  <<Node("MergingAggregatedMemoryEfficient", "",
                         arg \o <<max_streams>>, p.streams)>>]

executeTotalsAndHaving(p, max_streams, has_having, overflow_row) ==
    LET u == executeUnion(p, max_streams)
    IN  [u EXCEPT !.streams[1] =
             Wrap("TotalsHaving", IF has_having THEN "having" ELSE "",
                  <<Bit(overflow_row)>>, u.streams[1])]

\* the SortDescription: the direction of the single ORDER BY column
getSortDescription(q) == IF q.order_desc THEN "desc" ELSE "asc"

executeOrder(p, q, max_streams) ==
    LET limit == getLimitForSorting(q)
        order_descr == getSortDescription(q)
        u == executeUnion(transform(p, "PartialSorting", order_descr, <<limit>>),
                          max_streams)
    IN  [u EXCEPT !.streams[1] =
             Wrap("MergeSorting", order_descr, <<limit>>, u.streams[1])]

executeMergeSorted(p, q) ==
    LET limit == getLimitForSorting(q)
        t == transform(p, "Asynchronous", "", <<>>)
    IN  IF hasMoreThanOneStream(p)
        THEN [t EXCEPT !.streams =
                 <<Node("MergingSorted", getSortDescription(q), <<limit>>, t.streams)>>]
        ELSE p

\* IBlockInputStream::isGroupedOutput of the stream heading a chain
isGroupedOutput(s) == FALSE

executeDistinct(p, q, before_order) ==
    LET limit_for_distinct ==
            IF ~q.order \/ ~before_order THEN LimitSum(q) ELSE 0
        F(s) == IF isGroupedOutput(s)
                THEN Wrap("DistinctSorted", "", <<limit_for_distinct>>, s)
                ELSE Wrap("Distinct", "", <<limit_for_distinct>>, s)
    IN  IF q.distinct
        THEN [streams |-> [i \in 1..Len(p.streams) |-> F(p.streams[i])],
              streams_with_non_joined_data |->
                  [i \in 1..Len(p.streams_with_non_joined_data) |->
                      F(p.streams_with_non_joined_data[i])]]
        ELSE p

executePreLimit(p, q) ==
    IF q.has_limit THEN transform(p, "Limit", "", <<LimitSum(q), 0, 0>>) ELSE p

executeLimitBy(p, q) ==
    IF q.limit_by THEN transform(p, "LimitBy", "", <<q.limit_by_value>>) ELSE p

RECURSIVE AnyTrue(_)
AnyTrue(s) == s # <<>> /\ (Head(s) \/ AnyTrue(Tail(s)))

\* q.from_totals lists group_by_with_totals of the selects nested in FROM,
\* outermost first
hasWithTotalsInAnySubqueryInFromClause(q) ==
    q.totals \/ AnyTrue(q.from_totals)

always_read_till_endAtAnyLevel(q) ==
    (q.totals /\ ~q.order) \/ hasWithTotalsInAnySubqueryInFromClause(q)

always_read_till_end(q) ==
    (q.totals /\ ~q.order)
    \/ (~q.totals /\ hasWithTotalsInAnySubqueryInFromClause(q))

executeLimit(p, q) ==
    IF q.has_limit
    THEN transform(p, "Limit", "",
                   <<getLimitLength(q), getLimitOffset(q),
                     Bit(always_read_till_end(q))>>)
    ELSE p

executeExtremes(p, st) ==
    IF st.extremes
    THEN [streams |->
              [i \in 1..Len(p.streams) |-> [p.streams[i] EXCEPT !.extremes = TRUE]],
          streams_with_non_joined_data |->
              [i \in 1..Len(p.streams_with_non_joined_data) |->
                  [p.streams_with_non_joined_data[i] EXCEPT !.extremes = TRUE]]]
    ELSE p

executeSubqueriesInSetsAndJoinsOverFirst(p, max_streams, subqueries_for_sets) ==
    [p EXCEPT !.streams[1] =
        Wrap("CreatingSets", "", <<subqueries_for_sets>>, p.streams[1])]

\* subqueries_for_sets is the number of entries of the SubqueriesForSets map
executeSubqueriesInSetsAndJoins(p, max_streams, subqueries_for_sets) ==
    LET u == executeUnion(p, max_streams)
    IN  [u EXCEPT !.streams[1] =
             Wrap("CreatingSets", "", <<subqueries_for_sets>>, u.streams[1])]

(***************************************************************************)
(* ExpressionAnalyzer, as far as the builder consults it: a step is        *)
(* appended when the query has the clause, with only_types or for real.    *)
(***************************************************************************)
hasAggregation(q) == q.has_aggregation

appendJoin(q, only_types) == q.join # "None"

appendWhere(q, only_types) == q.where

appendHaving(q, only_types) == q.having

appendOrderBy(q, only_types) == q.order

appendLimitBy(q, only_types) == q.limit_by

(***************************************************************************)
(* analyzeExpressions.  programs lists the steps of the actions chain in   *)
(* the order they are appended, each with the only_types flag it was       *)
(* appended with.                                                          *)
(***************************************************************************)
first_stage_swapped(from_stage, to_stage) ==
    from_stage <= WithMergeableState /\ to_stage > WithMergeableState

first_stage(from_stage, to_stage) ==
    from_stage < WithMergeableState /\ to_stage >= WithMergeableState

second_stage(from_stage, to_stage) ==
    from_stage <= WithMergeableState /\ to_stage > WithMergeableState

\* the steps of the ExpressionActionsChain, in the order of lines 405-451
actionsChain(ex) ==
    LET first_only_types == ~ex.first_stage
        second_only_types == ~ex.second_stage
    IN  (IF ex.has_join
         THEN <<[step |-> "before_join", only_types |-> first_only_types]>>
         ELSE <<>>)
        \o (IF ex.has_where
            THEN <<[step |-> "before_where", only_types |-> first_only_types]>>
            ELSE <<>>)
        \o (IF ex.need_aggregate
            THEN <<[step |-> "before_aggregation", only_types |-> first_only_types]>>
            ELSE <<>>)
        \o (IF ex.has_having
            THEN <<[step |-> "before_having", only_types |-> second_only_types]>>
            ELSE <<>>)
        \o <<[step |-> "before_order_and_select",
              only_types |-> IF ex.need_aggregate THEN second_only_types
                             ELSE first_only_types]>>
        \o (IF ex.has_limit_by
            THEN <<[step |-> "before_limit_by", only_types |-> second_only_types]>>
            ELSE <<>>)
        \o <<[step |-> "final_projection", only_types |-> FALSE]>>

analyzeExpressionsForStage(q, from_stage, to_stage) ==
    LET first == first_stage(from_stage, to_stage)
        second == second_stage(from_stage, to_stage)
        need_aggregate == hasAggregation(q)
        ex == [first_stage |-> first,
               second_stage |-> second,
               need_aggregate |-> need_aggregate,
               has_join |-> first /\ appendJoin(q, ~first),
               has_where |-> first /\ appendWhere(q, ~first),
               has_having |-> second /\ need_aggregate /\ appendHaving(q, ~second),
               has_order_by |->
                   appendOrderBy(q, IF need_aggregate THEN ~second ELSE ~first),
               has_limit_by |-> second /\ appendLimitBy(q, ~second),
               programs |-> <<>>,
               subqueries_for_sets |-> q.sets]
    IN  [ex EXCEPT !.programs = actionsChain(ex)]

analyzeExpressions(q, from_stage, to_stage) ==
    LET first == first_stage(from_stage, to_stage)
        second == second_stage(from_stage, to_stage)
        need_aggregate == hasAggregation(q)
        ex == [first_stage |-> first,
               second_stage |-> second,
               need_aggregate |-> need_aggregate,
               has_join |-> appendJoin(q, ~first),
               has_where |-> appendWhere(q, ~first),
               has_having |-> need_aggregate /\ appendHaving(q, ~second),
               has_order_by |->
                   appendOrderBy(q, IF need_aggregate THEN ~second ELSE ~first),
               has_limit_by |-> appendLimitBy(q, ~second),
               programs |-> <<>>,
               subqueries_for_sets |-> q.sets]
    IN  [ex EXCEPT !.programs = actionsChain(ex)]

NoExpressions ==
    [first_stage |-> FALSE, second_stage |-> FALSE, need_aggregate |-> FALSE,
     has_join |-> FALSE, has_where |-> FALSE, has_having |-> FALSE,
     has_order_by |-> FALSE, has_limit_by |-> FALSE, programs |-> <<>>,
     subqueries_for_sets |-> 0]

(***************************************************************************)
(* executeImpl, after the fetch and the stage check.                       *)
(***************************************************************************)
aggregate_overflow_row(q, st, ex) ==
    /\ ex.need_aggregate
    /\ q.totals
    /\ st.max_rows_to_group_by # 0
    /\ st.group_by_overflow_mode = "any"
    /\ st.totals_mode # "after_having_exclusive"

aggregate_final(q, ex, to_stage) ==
    ex.need_aggregate /\ to_stage > WithMergeableState /\ ~q.totals

\* lines 509-524: JOIN and WHERE
joinAndWhere(p, q, ex) ==
    LET j == IF ex.has_join THEN executeJoin(p, q) ELSE p
    IN  IF ex.has_where THEN executeWhere(j) ELSE j

\* lines 526-532: GROUP BY, or the expression before ORDER BY and a DISTINCT
aggregateOrDistinct(p, q, st, max_streams, ex, to_stage) ==
    IF ex.need_aggregate
    THEN executeAggregation(p, st, max_streams,
                            aggregate_overflow_row(q, st, ex),
                            aggregate_final(q, ex, to_stage))
    ELSE executeDistinct(executeExpression(p, "before_order_and_select"), q, TRUE)

\* lines 539-549: with a distributed query without GROUP BY and HAVING the
\* sort, the second DISTINCT and the preliminary LIMIT run on the shards
pushdown(ex) == ~ex.second_stage /\ ~ex.need_aggregate /\ ~ex.has_having

orderOnShard(p, q, max_streams, ex) ==
    IF pushdown(ex) /\ ex.has_order_by THEN executeOrder(p, q, max_streams) ELSE p

distinctOnShard(p, q, ex) ==
    IF pushdown(ex) /\ ex.has_order_by /\ q.has_limit
    THEN executeDistinct(p, q, FALSE) ELSE p

preLimitOnShard(p, q, ex) ==
    IF pushdown(ex) /\ q.has_limit THEN executePreLimit(p, q) ELSE p

\* lines 507-550
FirstStageSteps(p0, q, st, max_streams, ex, to_stage) ==
    preLimitOnShard(
        distinctOnShard(
            orderOnShard(
                aggregateOrDistinct(joinAndWhere(p0, q, ex),
                                    q, st, max_streams, ex, to_stage),
                q, max_streams, ex),
            q, ex),
        q, ex)

\* lines 557-579: the aggregate branch and the branch without aggregation
mergeAggregatedAlways(p, st, max_streams, ex, overflow, final) ==
    executeMergeAggregated(p, st, max_streams, overflow, final)

mergeAggregated(p, st, max_streams, ex, overflow, final) ==
    IF ~ex.first_stage
    THEN executeMergeAggregated(p, st, max_streams, overflow, final) ELSE p

totalsThenHaving(p, max_streams, ex, overflow, final) ==
    LET t == IF ~final
             THEN executeTotalsAndHaving(p, max_streams, ex.has_having, overflow)
             ELSE p
    IN  IF ex.has_having THEN executeHaving(t) ELSE t

totalsOrHaving(p, max_streams, ex, overflow, final) ==
    IF ~final
    THEN executeTotalsAndHaving(p, max_streams, ex.has_having, overflow)
    ELSE IF ex.has_having THEN executeHaving(p) ELSE p

afterAggregation(p, q, st, max_streams, ex, to_stage) ==
    LET final == aggregate_final(q, ex, to_stage)
        overflow == aggregate_overflow_row(q, st, ex)
    IN  IF ex.need_aggregate
        THEN executeDistinct(
                 executeExpression(
                     totalsOrHaving(
                         mergeAggregated(p, st, max_streams, ex, overflow, final),
                         max_streams, ex, overflow, final),
                     "before_order_and_select"),
                 q, TRUE)
        ELSE IF q.totals /\ ~final
        THEN executeTotalsAndHaving(p, max_streams, FALSE, overflow)
        ELSE p

\* lines 571 and 575: set before the sort, from the pipeline as it is there
need_second_distinct_pass(p, q) == q.distinct /\ hasMoreThanOneStream(p)

\* lines 581-591
orderOrMergeSorted(p, q, max_streams, ex, to_stage) ==
    IF ex.has_order_by
    THEN IF /\ ~ex.first_stage
            /\ ~ex.need_aggregate
            /\ ~(q.totals /\ ~aggregate_final(q, ex, to_stage))
         THEN executeMergeSorted(p, q)
         ELSE executeOrder(p, q, max_streams)
    ELSE p

\* lines 596-599
needPreLimit(p, q, st, ex) ==
    /\ q.has_limit
    /\ hasMoreThanOneStream(p)
    /\ ~q.distinct
    /\ ~ex.has_limit_by
    /\ ~st.extremes

preLimit(p, q, st, ex) ==
    IF needPreLimit(p, q, st, ex) THEN executePreLimit(p, q) ELSE p

need_merge_streamsForLimit(p, q, second_pass) ==
    \/ second_pass
    \/ q.has_limit
    \/ p.streams_with_non_joined_data # <<>>

\* lines 601-610
need_merge_streams(p, q, second_pass) ==
    \/ second_pass
    \/ q.has_limit
    \/ q.limit_by
    \/ p.streams_with_non_joined_data # <<>>

mergeStreams(p, q, max_streams, second_pass) ==
    IF need_merge_streams(p, q, second_pass) THEN executeUnion(p, max_streams) ELSE p

\* lines 615-622
secondDistinct(p, q, second_pass) ==
    IF second_pass THEN executeDistinct(p, q, FALSE) ELSE p

limitBy(p, q, ex) ==
    IF ex.has_limit_by
    THEN executeLimitBy(executeExpression(p, "before_limit_by"), q) ELSE p

tailLimitBeforeProjection(p, q, st) ==
    executeExtremes(executeProjection(executeLimit(p, q)), st)

\* lines 626-632
tail(p, q, st) == executeLimit(executeExtremes(executeProjection(p), st), q)

\* lines 581-632, from the sort on
fromOrder(p, q, st, max_streams, ex, to_stage, second_pass) ==
    tail(
        limitBy(
            secondDistinct(
                mergeStreams(
                    preLimit(orderOrMergeSorted(p, q, max_streams, ex, to_stage),
                             q, st, ex),
                    q, max_streams, second_pass),
                q, second_pass),
            q, ex),
        q, st)

\* lines 552-633
SecondStageSteps(p0, q, st, max_streams, ex, to_stage) ==
    LET a == afterAggregation(p0, q, st, max_streams, ex, to_stage)
    IN  fromOrder(a, q, st, max_streams, ex, to_stage,
                  need_second_distinct_pass(IF ex.need_aggregate THEN a ELSE p0, q))

\* executeImpl from the stage analysis on (lines 493-637)
BuildStages(p, q, st, max_streams, from_stage, to_stage) ==
    LET ex == analyzeExpressions(q, from_stage, to_stage)
        p1 == IF to_stage > FetchColumns /\ ex.first_stage
              THEN FirstStageSteps(p, q, st, max_streams, ex, to_stage) ELSE p
        p2 == IF to_stage > FetchColumns /\ ex.second_stage
              THEN SecondStageSteps(p1, q, st, max_streams, ex, to_stage) ELSE p1
    IN  IF ex.subqueries_for_sets # 0
        THEN executeSubqueriesInSetsAndJoins(p2, max_streams, ex.subqueries_for_sets)
        ELSE p2

(***************************************************************************)
(* InterpreterSelectQuery::init.  b is the builder as the constructor      *)
(* received it, q the query, st the context settings, sto the storage the  *)
(* context resolves the table to.  The result is the builder after init,   *)
(* or the builder as the exception left it.                                *)
(***************************************************************************)
NewBuilder(b, st) ==
    [err |-> "none", settings |-> st, query_context_set |-> FALSE,
     settings_applied |-> FALSE,
     max_streams |-> 0, storage |-> "null", table_lock |-> FALSE,
     source_columns |-> "none", query_analyzer |-> FALSE,
     checks |-> <<>>, external_tables_saved |-> FALSE]

\* initSettings: the SETTINGS clause of the query is executed for the context
initSettings(q, st) ==
    IF q.has_settings
    THEN [st EXCEPT !.max_subquery_depth = q.settings_max_subquery_depth]
    ELSE st

tooDeepOffByOne(s, depth) ==
    s.max_subquery_depth # 0 /\ depth >= s.max_subquery_depth

tooDeep(s, depth) ==
    s.max_subquery_depth # 0 /\ depth > s.max_subquery_depth

Throw(x, code) == [x EXCEPT !.err = code]

tableStorage(q) == IF q.table = "function" THEN "function" ELSE "table"

illegalClauseOfStorage(requested, no_storage, supported) ==
    requested /\ ~no_storage /\ ~supported

\* lines 211, 214, 217: clause && (input || !storage || !storage->supports...())
illegalClause(requested, no_storage, supported) ==
    requested /\ (no_storage \/ ~supported)

init(b, q, st, sto) ==
    LET s == initSettings(q, st)
        x0 == [NewBuilder(b, st) EXCEPT
                  !.settings = s, !.query_context_set = TRUE,
                  !.settings_applied = q.has_settings]
        x1 == [x0 EXCEPT !.max_streams = s.max_threads]
        \* lines 165-198: where the source columns and the storage come from
        x2 == IF b.has_input
              THEN [x1 EXCEPT !.source_columns = "input"]
              ELSE IF q.table = "subquery"
              THEN [x1 EXCEPT !.source_columns = "subquery"]
              ELSE [x1 EXCEPT !.storage = tableStorage(q), !.table_lock = TRUE]
        x3 == [x2 EXCEPT !.query_analyzer = TRUE]
        no_storage == b.has_input \/ x3.storage = "null"
    IN  IF tooDeep(s, b.subquery_depth)
        THEN Throw(x0, "TOO_DEEP_SUBQUERIES")
        ELSE IF ~b.has_input /\ q.table # "subquery" /\ ~sto.exists
        THEN Throw(x1, "UNKNOWN_TABLE")
        ELSE IF b.only_analyze THEN x3
        ELSE IF illegalClause(q.sample, no_storage, sto.supportsSampling)
        THEN Throw([x3 EXCEPT !.checks = <<"sample">>], "SAMPLING_NOT_SUPPORTED")
        ELSE IF illegalClause(q.final, no_storage, sto.supportsFinal)
        THEN Throw([x3 EXCEPT !.checks = <<"sample", "final">>], "ILLEGAL_FINAL")
        ELSE IF illegalClause(q.prewhere, no_storage, sto.supportsPrewhere)
        THEN Throw([x3 EXCEPT !.checks = <<"sample", "final", "prewhere">>],
                   "ILLEGAL_PREWHERE")
        ELSE [x3 EXCEPT !.checks = <<"sample", "final", "prewhere">>,
                        !.external_tables_saved = TRUE]

(***************************************************************************)
(* The builder of a FROM subquery, as executeFetchColumns creates it       *)
(* (lines 697-724): to_stage Complete, subquery_depth + 1, the context     *)
(* settings with the result caps and extremes switched off.                *)
(***************************************************************************)
NestedBuilder(b) ==
    [to_stage |-> Complete, subquery_depth |-> b.subquery_depth + 1,
     only_analyze |-> FALSE, has_input |-> FALSE, entry |-> "executeWithMultipleStreams"]

NestedSettings(st) == [st EXCEPT !.extremes = FALSE]

\* a storage that is read locally, and a select without optional clauses
BaseStorage ==
    [exists |-> TRUE, supportsSampling |-> FALSE, supportsFinal |-> FALSE,
     supportsPrewhere |-> FALSE, has_aliases |-> FALSE, isRemote |-> FALSE,
     read_streams |-> 1, processed_stage |-> FetchColumns, subquery_streams |-> 1]

BaseQuery ==
    [distinct |-> FALSE, prewhere |-> FALSE, where |-> FALSE, group |-> FALSE,
     having |-> FALSE, order |-> FALSE, order_desc |-> FALSE, limit_by |-> FALSE, limit_by_value |-> 1,
     has_limit |-> FALSE, limit_length |-> 0, limit_offset |-> 0,
     totals |-> FALSE, sample |-> FALSE, final |-> FALSE, join |-> "None",
     table |-> "table", from_totals |-> <<>>, from_order |-> <<>>,
     has_settings |-> FALSE,
     settings_max_subquery_depth |-> 0, has_aggregation |-> FALSE,
     sets |-> 0, ncols |-> 1, ncols_alias |-> 1, ncols_subquery |-> 1,
     alias_required |-> FALSE]

\* the select nested in FROM: a plain select of the columns the outer query
\* requires, from a table, without a SETTINGS clause
NestedQuery(q) == [BaseQuery EXCEPT !.ncols = q.ncols_subquery]

\* the table of the nested select, read locally
NestedStorage(sto) == [BaseStorage EXCEPT !.read_streams = sto.subquery_streams]

NoNested ==
    [created |-> FALSE, executed |-> FALSE, analyzed |-> FALSE,
     source_read |-> FALSE]

(***************************************************************************)
(* executeFetchColumns.  x is the builder after init, p the Pipeline       *)
(* (holding the prepared input, if any), built what the interpreter of the *)
(* FROM subquery returns when it is asked for its streams or its header.   *)
(***************************************************************************)
NotBuilt == [err |-> "none", streams |-> <<>>, source_read |-> FALSE]

tooManyColumnsInDryRun(st, dry_run, n) ==
    st.max_columns_to_read # 0 /\ n > st.max_columns_to_read

tooManyColumns(st, dry_run, n) ==
    ~dry_run /\ st.max_columns_to_read # 0 /\ n > st.max_columns_to_read

limitOptimizationAsDocumented(q, max_block_size) ==
    /\ ~q.distinct /\ ~q.where /\ ~q.group /\ ~q.having
    /\ ~q.order /\ ~q.limit_by /\ q.has_limit
    /\ getLimitLength(q) < max_block_size

limitOptimization(q, max_block_size) ==
    /\ ~q.distinct /\ ~q.prewhere /\ ~q.where /\ ~q.group /\ ~q.having
    /\ ~q.order /\ ~q.limit_by /\ q.has_limit /\ ~hasAggregation(q)
    /\ LimitSum(q) < max_block_size

Sources(op, n) == [i \in 1..n |-> Leaf(op, i)]

\* NullBlockInputStream over a header of n columns
NullStream(n) == Leaf("Null", n)

substituteNothing(streams, n) == streams

\* lines 894-895
substituteNull(streams, n) == IF streams = <<>> THEN <<NullStream(n)>> ELSE streams

executeFetchColumnsWith(x, b, q, sto, dry_run, p, built) ==
    LET st == x.settings
        alias_actions == x.storage # "null" /\ sto.has_aliases /\ q.alias_required
        required_columns == IF alias_actions THEN q.ncols_alias ELSE q.ncols
        has_subquery == q.table = "subquery"
        nested == IF has_subquery
                  THEN init(NestedBuilder(b), NestedQuery(q), NestedSettings(st),
                            NestedStorage(sto))
                  ELSE NewBuilder(b, st)
        is_remote == x.storage # "null" /\ sto.isRemote
        ms0 == IF is_remote THEN st.max_distributed_connections ELSE x.max_streams
        opt == limitOptimization(q, st.max_block_size)
        max_block_size == IF opt THEN LimitSum(q) ELSE st.max_block_size
        ms1 == IF opt THEN 1 ELSE ms0
        ms2 == IF ms1 > 1 /\ ~is_remote
               THEN ms1 * st.max_streams_to_max_threads_ratio ELSE ms1
        r0 == [err |-> "none", pipeline |-> p, from_stage |-> FetchColumns,
               max_streams |-> ms1, max_block_size |-> max_block_size,
               required_columns |-> required_columns,
               nested |-> [NoNested EXCEPT !.created = has_subquery],
               source_read |-> FALSE]
        read == IF dry_run THEN <<>>
                ELSE Sources(IF sto.processed_stage = FetchColumns
                             THEN "Source" ELSE "Remote", sto.read_streams)
        from_stage == IF dry_run THEN FetchColumns ELSE sto.processed_stage
        aliased(r) ==
            IF r.from_stage = FetchColumns /\ alias_actions
            THEN [r EXCEPT !.pipeline =
                     transform(r.pipeline, "Expression", "alias_actions", <<>>)]
            ELSE r
    IN  IF has_subquery /\ nested.err # "none"
        THEN [r0 EXCEPT !.err = nested.err, !.max_streams = x.max_streams,
                        !.max_block_size = st.max_block_size,
                        !.nested.created = FALSE]
        ELSE IF tooManyColumns(st, dry_run, required_columns)
        THEN [r0 EXCEPT !.err = "TOO_MANY_COLUMNS", !.max_streams = x.max_streams,
                        !.max_block_size = st.max_block_size]
        ELSE IF p.streams # <<>>
        THEN aliased(r0)
        ELSE IF has_subquery
        THEN IF built.err # "none"
             THEN [r0 EXCEPT !.err = built.err]
             ELSE IF ~dry_run
             THEN aliased([r0 EXCEPT
                      !.pipeline.streams = built.streams,
                      !.nested.executed = TRUE,
                      !.nested.source_read = built.source_read])
             ELSE aliased([r0 EXCEPT
                      !.pipeline.streams = <<NullStream(NestedQuery(q).ncols)>>,
                      !.nested.analyzed = TRUE,
                      !.nested.source_read = built.source_read])
        ELSE IF x.storage # "null"
        THEN IF ms1 = 0
             THEN [r0 EXCEPT !.err = "LOGICAL_ERROR"]
             ELSE aliased([r0 EXCEPT
                      !.max_streams = ms2,
                      !.from_stage = from_stage,
                      !.source_read = ~dry_run,
                      !.pipeline.streams = substituteNull(read, required_columns)])
        ELSE [r0 EXCEPT !.err = "LOGICAL_ERROR"]

nestedBuildExecuted(b, q, st, sto, dry_run) ==
    LET nb == NestedBuilder(b)
        nq == NestedQuery(q)
        nsto == NestedStorage(sto)
        x == init(nb, nq, NestedSettings(st), nsto)
        r == executeFetchColumnsWith(x, nb, nq, nsto, FALSE, EmptyPipeline, NotBuilt)
        p == BuildStages(r.pipeline, nq, x.settings, r.max_streams,
                         r.from_stage, nb.to_stage)
    IN  IF x.err # "none"
        THEN [err |-> x.err, streams |-> <<>>, source_read |-> FALSE]
        ELSE IF r.err # "none"
        THEN [err |-> r.err, streams |-> <<>>, source_read |-> FALSE]
        ELSE [err |-> "none", streams |-> p.streams, source_read |-> r.source_read]

\* InterpreterSelectWithUnionQuery over the single nested select:
\* executeWithMultipleStreams (lines 376-381) when the run is real,
\* getSampleBlock (lines 350-356) when it is dry.  streams is pipeline.streams
\* of the nested build.
nestedBuild(b, q, st, sto, dry_run) ==
    LET nb == NestedBuilder(b)
        nq == NestedQuery(q)
        nsto == NestedStorage(sto)
        x == init(nb, nq, NestedSettings(st), nsto)
        r == executeFetchColumnsWith(x, nb, nq, nsto, dry_run, EmptyPipeline, NotBuilt)
        p == BuildStages(r.pipeline, nq, x.settings, r.max_streams,
                         r.from_stage, nb.to_stage)
    IN  IF x.err # "none"
        THEN [err |-> x.err, streams |-> <<>>, source_read |-> FALSE]
        ELSE IF r.err # "none"
        THEN [err |-> r.err, streams |-> <<>>, source_read |-> FALSE]
        ELSE [err |-> "none", streams |-> p.streams, source_read |-> r.source_read]

executeFetchColumns(x, b, q, sto, dry_run, p) ==
    executeFetchColumnsWith(x, b, q, sto, dry_run, p,
        IF q.table = "subquery" /\ x.err = "none"
        THEN nestedBuild(b, q, x.settings, sto, dry_run) ELSE NotBuilt)

(***************************************************************************)
(* What the operators yield when pulled.  A row is <<k, v, f>>: key column *)
(* k, value column v, and f = 1 when v is a partial aggregate state, 0     *)
(* when it is a plain (or finalized) value.                                *)
(***************************************************************************)
Min(a, b) == IF a <= b THEN a ELSE b

Before(r1, r2, descr) == IF descr = "desc" THEN r1[2] >= r2[2] ELSE r1[2] <= r2[2]

RECURSIVE Merge2(_, _, _)
\* the two-way merge of MergingSortedBlockInputStream
Merge2(x, y, descr) ==
    IF x = <<>> THEN y
    ELSE IF y = <<>> THEN x
    ELSE IF Before(Head(x), Head(y), descr)
    THEN <<Head(x)>> \o Merge2(Tail(x), y, descr)
    ELSE <<Head(y)>> \o Merge2(x, Tail(y), descr)

RECURSIVE SortRows(_, _)
SortRows(s, descr) ==
    IF s = <<>> THEN <<>>
    ELSE Merge2(<<Head(s)>>, SortRows(Tail(s), descr), descr)

\* a sort bound of 0 is no bound
Bound(s, limit) == IF limit = 0 THEN s ELSE SubSeq(s, 1, Min(limit, Len(s)))

\* LimitBlockInputStream: the rows at positions [offset, offset + limit)
LimitRows(s, limit, offset) ==
    IF offset >= Len(s) THEN <<>>
    ELSE SubSeq(s, offset + 1, Min(Len(s), offset + limit))

RECURSIVE Interleavings(_, _)
\* UnionBlockInputStream yields the rows of its chains in arrival order
Interleavings(x, y) ==
    IF x = <<>> THEN {y}
    ELSE IF y = <<>> THEN {x}
    ELSE {<<Head(x)>> \o z : z \in Interleavings(Tail(x), y)}
         \cup {<<Head(y)>> \o z : z \in Interleavings(x, Tail(y))}

RECURSIVE SumOf(_, _)
SumOf(s, k) ==
    IF s = <<>> THEN 0
    ELSE (IF Head(s)[1] = k THEN Head(s)[2] ELSE 0) + SumOf(Tail(s), k)

RECURSIVE StatesOf(_, _)
\* one aggregate state per key of ks occurring in s, in key order
StatesOf(s, ks) ==
    IF ks = {} THEN <<>>
    ELSE LET k == CHOOSE x \in ks : \A y \in ks : x <= y
         IN  <<<<k, SumOf(s, k), 1>>>> \o StatesOf(s, ks \ {k})

KeysOf(s) == {s[i][1] : i \in 1..Len(s)}

\* Aggregator::execute over plain rows, Aggregator::merge over states
AggregateStates(s) == StatesOf(s, KeysOf(s))

Finalize(s) == [i \in 1..Len(s) |-> <<s[i][1], s[i][2], 0>>]

Finalized(s, final) == IF final = 1 THEN Finalize(s) ELSE s

RECURSIVE DistinctRows(_, _)
\* DistinctBlockInputStream: the rows of s not in seen, each the first time
\* it occurs
DistinctRows(s, seen) ==
    IF s = <<>> THEN <<>>
    ELSE IF Head(s) \in seen THEN DistinctRows(Tail(s), seen)
    ELSE <<Head(s)>> \o DistinctRows(Tail(s), seen \cup {Head(s)})

Evaluable ==
    {"Source", "Remote", "Null", "Expression", "PartialSorting", "MergeSorting",
     "MergingSorted", "Asynchronous", "Union", "Limit", "Distinct", "Aggregating",
     "ParallelAggregating", "Concat", "MergingAggregated",
     "MergingAggregatedMemoryEfficient", "CreatingSets"}

RECURSIVE OutputsOf(_, _)
\* the set of row sequences the stream n can yield; leaf(i) are the rows of
\* Source chain i
OutputsOf(n, leaf) ==
    LET RECURSIVE Kids(_, _, _)
        \* combine the outputs of the children k..Len(n.in) into acc
        Kids(k, acc, how) ==
            IF k > Len(n.in) THEN acc
            ELSE Kids(k + 1,
                      UNION {CASE how = "interleave" -> Interleavings(a, o)
                               [] how = "concat" -> {a \o o}
                               [] how = "merge" -> {Merge2(a, o, n.tag)}
                               [] how = "aggregate" ->
                                      {AggregateStates(a \o AggregateStates(o))} :
                             a \in acc, o \in OutputsOf(n.in[k], leaf)},
                      how)
        In == OutputsOf(n.in[1], leaf)
    IN  CASE n.op \in {"Source", "Remote"} -> {leaf[n.arg[1]]}
          [] n.op = "Null" -> {<<>>}
          [] n.op \in {"Expression", "Asynchronous", "CreatingSets"} -> In
          [] n.op \in {"PartialSorting", "MergeSorting"} ->
                 {Bound(SortRows(o, n.tag), n.arg[1]) : o \in In}
          [] n.op = "MergingSorted" ->
                 {Bound(o, n.arg[1]) : o \in Kids(1, {<<>>}, "merge")}
          [] n.op = "Union" -> Kids(1, {<<>>}, "interleave")
          [] n.op = "Concat" -> Kids(1, {<<>>}, "concat")
          [] n.op = "Limit" -> {LimitRows(o, n.arg[1], n.arg[2]) : o \in In}
          [] n.op = "Distinct" -> {Bound(DistinctRows(o, {}), n.arg[1]) : o \in In}
          [] n.op = "Aggregating" ->
                 {Finalized(AggregateStates(o), n.arg[1]) : o \in In}
          [] n.op = "ParallelAggregating" ->
                 {Finalized(o, n.arg[1]) : o \in Kids(1, {<<>>}, "aggregate")}
          [] n.op \in {"MergingAggregated", "MergingAggregatedMemoryEfficient"} ->
                 {Finalized(AggregateStates(o), n.arg[1]) :
                     o \in IF n.op = "MergingAggregated" THEN In
                           ELSE Kids(1, {<<>>}, "concat")}

(***************************************************************************)
(* State.                                                                  *)
(*   b        the constructor arguments and the entry point called         *)
(*   q        the query (clauses, and what the ExpressionAnalyzer reports) *)
(*   st       the context settings before the build                        *)
(*   sto      the storage / Source adapter the table resolves to           *)
(*   self     the members of the builder                                   *)
(*   pipeline the Pipeline of executeImpl                                  *)
(*   loc      the locals of executeImpl                                    *)
(*   err      the exception the build ended with, "none" if none           *)
(*   data     the rows each Source chain yields                            *)
(*   out      what the entry point returned; rows the rows pulled from it  *)
(*   given    the Pipeline handed to a direct call of executeUnion         *)
(*   run      the state of the streams of the result while they are read   *)
(* In the builds that read a UnionBlockInputStream (SpecRead) data[i] is   *)
(* what input i of the union does when read: the blocks it yields and      *)
(* whether it then throws instead of ending.                               *)
(***************************************************************************)
VARIABLES pc, b, q, st, sto, self, pipeline, loc, err, data, out, rows, given, run

vars == <<pc, b, q, st, sto, self, pipeline, loc, err, data, out, rows, given, run>>

inputs == <<b, q, st, sto, data, given>>

\* nothing has been read yet.  chains is the state of each input of a
\* UnionBlockInputStream, queue its output queue, cancelled its cancel flag,
\* consumer the state of the thread that reads it, received the blocks it got
NoRun ==
    [sets_created |-> 0, chains |-> <<>>, queue |-> <<>>, cancelled |-> FALSE,
     consumer |-> "idle", received |-> 0]

NoLocals ==
    [dry_run |-> FALSE, from_stage |-> FetchColumns, expressions |-> NoExpressions,
     nested |-> NoNested, source_read |-> FALSE, max_block_size |-> 0,
     required_columns |-> 0, analyzed |-> FALSE]

dryRun(bb) == bb.entry = "getSampleBlock"

(***************************************************************************)
(* The constructor: init.                                                  *)
(***************************************************************************)
Construct ==
    /\ pc = "new"
    /\ self' = init(b, q, st, sto)
    /\ err' = self'.err
    /\ pc' = IF self'.err = "none" THEN "constructed" ELSE "failed"
    /\ UNCHANGED <<inputs, run, pipeline, loc, out, rows>>

(***************************************************************************)
(* execute / executeWithMultipleStreams / getSampleBlock enter executeImpl:*)
(* the prepared input is pushed and executeFetchColumns runs.              *)
(***************************************************************************)
Fetch ==
    /\ pc = "constructed"
    /\ LET p0 == IF b.has_input
                 THEN [EmptyPipeline EXCEPT !.streams = <<Leaf("Input", 0)>>]
                 ELSE EmptyPipeline
           r == executeFetchColumns(self, b, q, sto, dryRun(b), p0)
       IN  /\ pipeline' = r.pipeline
           /\ self' = [self EXCEPT !.max_streams = r.max_streams]
           /\ loc' = [loc EXCEPT !.dry_run = dryRun(b),
                                 !.from_stage = r.from_stage,
                                 !.nested = r.nested,
                                 !.source_read = r.source_read,
                                 !.max_block_size = r.max_block_size,
                                 !.required_columns = r.required_columns]
           /\ err' = r.err
           /\ pc' = IF r.err = "none" THEN "fetched" ELSE "failed"
    /\ UNCHANGED <<inputs, run, out, rows>>

\* lines 487-493
illegalStagesNever(from_stage, to_stage) == FALSE

illegalStagesAnyFrom(from_stage, to_stage) == to_stage = WithMergeableState

illegalStages(from_stage, to_stage) ==
    from_stage = WithMergeableState /\ to_stage = WithMergeableState

CheckStage ==
    /\ pc = "fetched"
    /\ IF illegalStages(loc.from_stage, b.to_stage)
       THEN /\ err' = "NOT_IMPLEMENTED"
            /\ pc' = "failed"
            /\ loc' = loc
       ELSE /\ err' = err
            /\ pc' = "analyzed"
            /\ loc' = [loc EXCEPT
                         !.expressions =
                             analyzeExpressions(q, loc.from_stage, b.to_stage),
                         !.analyzed = TRUE]
    /\ UNCHANGED <<inputs, run, self, pipeline, out, rows>>

FirstStage ==
    /\ pc = "analyzed"
    /\ pipeline' =
          IF b.to_stage > FetchColumns /\ loc.expressions.first_stage
          THEN FirstStageSteps(pipeline, q, self.settings, self.max_streams,
                               loc.expressions, b.to_stage)
          ELSE pipeline
    /\ pc' = "first_done"
    /\ UNCHANGED <<inputs, run, self, loc, err, out, rows>>

SecondStage ==
    /\ pc = "first_done"
    /\ pipeline' =
          IF b.to_stage > FetchColumns /\ loc.expressions.second_stage
          THEN SecondStageSteps(pipeline, q, self.settings, self.max_streams,
                                loc.expressions, b.to_stage)
          ELSE pipeline
    /\ pc' = "second_done"
    /\ UNCHANGED <<inputs, run, self, loc, err, out, rows>>

SubqueriesForSetsInStages ==
    /\ pc = "second_done"
    /\ pipeline' =
          IF b.to_stage > FetchColumns /\ loc.expressions.subqueries_for_sets # 0
          THEN executeSubqueriesInSetsAndJoins(pipeline, self.max_streams,
                                               loc.expressions.subqueries_for_sets)
          ELSE pipeline
    /\ pc' = "built"
    /\ UNCHANGED <<inputs, run, self, loc, err, out, rows>>

\* lines 636-637
SubqueriesForSets ==
    /\ pc = "second_done"
    /\ pipeline' =
          IF loc.expressions.subqueries_for_sets # 0
          THEN executeSubqueriesInSetsAndJoins(pipeline, self.max_streams,
                                               loc.expressions.subqueries_for_sets)
          ELSE pipeline
    /\ pc' = "built"
    /\ UNCHANGED <<inputs, run, self, loc, err, out, rows>>

(***************************************************************************)
(* The entry point returns: execute collapses and returns the first        *)
(* stream, executeWithMultipleStreams returns pipeline.streams,            *)
(* getSampleBlock the header of the first stream.                          *)
(***************************************************************************)
Return ==
    /\ pc = "built"
    /\ pipeline' = IF b.entry = "execute"
                   THEN executeUnion(pipeline, self.max_streams)
                   ELSE pipeline
    /\ out' = IF b.entry = "executeWithMultipleStreams"
              THEN pipeline'.streams
              ELSE <<firstStream(pipeline')>>
    /\ pc' = "done"
    /\ UNCHANGED <<inputs, run, self, loc, err, rows>>

Next ==
    \/ Construct
    \/ Fetch
    \/ CheckStage
    \/ FirstStage
    \/ SecondStage
    \/ SubqueriesForSets
    \/ Return

(***************************************************************************)
(* Inputs of a build.                                                      *)
(***************************************************************************)
DefaultBlockSize == 4
DefaultThreads == 2

Entries == {"execute", "executeWithMultipleStreams", "getSampleBlock"}

BaseSettings ==
    [max_subquery_depth |-> MaxDepth, max_threads |-> DefaultThreads,
     max_columns_to_read |-> 0, max_distributed_connections |-> DefaultThreads,
     max_block_size |-> DefaultBlockSize, max_streams_to_max_threads_ratio |-> 1,
     extremes |-> FALSE, max_rows_to_group_by |-> 0,
     group_by_overflow_mode |-> "throw", totals_mode |-> "after_having_exclusive",
     max_bytes_before_external_group_by |-> 0,
     distributed_aggregation_memory_efficient |-> FALSE]

BaseBuilder ==
    [to_stage |-> Complete, subquery_depth |-> 0, only_analyze |-> FALSE,
     has_input |-> FALSE, entry |-> "execute"]

\* the clauses that decide which steps the two stages attach
StageQueries ==
    {[BaseQuery EXCEPT !.distinct = f.distinct, !.order = f.order,
                       !.limit_by = f.limit_by, !.has_limit = f.has_limit,
                       !.limit_length = IF f.has_limit THEN 1 ELSE 0,
                       !.limit_offset = IF f.has_limit THEN 1 ELSE 0,
                       !.totals = f.totals, !.join = f.join,
                       !.has_aggregation = f.agg # "no", !.group = f.agg # "no",
                       !.having = f.agg = "having",
                       !.sets = IF f.sets THEN MaxSets ELSE 0] :
        f \in [distinct : BOOLEAN, order : BOOLEAN, limit_by : BOOLEAN,
               has_limit : BOOLEAN, totals : BOOLEAN, join : {"None", "Full"},
               agg : {"no", "yes", "having"}, sets : BOOLEAN]}

StageSettings ==
    {[BaseSettings EXCEPT !.extremes = f.extremes,
                          !.distributed_aggregation_memory_efficient = f.me] :
        f \in [extremes : BOOLEAN, me : BOOLEAN]}

StageStorages ==
    {[BaseStorage EXCEPT !.read_streams = f.n, !.processed_stage = f.stage] :
        f \in [n : 1..MaxStreams, stage : Stages]}

StageBuilders ==
    {[BaseBuilder EXCEPT !.to_stage = f.to_stage, !.entry = f.entry] :
        f \in [to_stage : Stages, entry : Entries]}

InitRest ==
    /\ pc = "new"
    /\ self = NewBuilder(b, st)
    /\ pipeline = EmptyPipeline
    /\ loc = NoLocals
    /\ err = "none"
    /\ out = <<>>
    /\ rows = <<>>
    /\ run = NoRun

Init ==
    /\ b \in StageBuilders
    /\ q \in StageQueries
    /\ st \in StageSettings
    /\ sto \in StageStorages
    /\ data = <<>>
    /\ given = EmptyPipeline
    /\ InitRest

Spec == Init /\ [][Next]_vars

(***************************************************************************)
(* Pulling the result of execute().  A Source chain of a table that        *)
(* reports a later stage than FetchColumns yields what the remote build of *)
(* the same query up to that stage yields over the chain's rows.           *)
(***************************************************************************)
RemoteStream(i) ==
    firstStream(executeUnion(
        BuildStages([EmptyPipeline EXCEPT !.streams = <<Leaf("Source", i)>>],
                    q, self.settings, self.max_streams,
                    FetchColumns, sto.processed_stage),
        self.max_streams))

LeafRows ==
    [i \in 1..Len(data) |->
        IF sto.processed_stage = FetchColumns THEN data[i]
        ELSE CHOOSE o \in OutputsOf(RemoteStream(i), data) : TRUE]

CanPull(n) ==
    /\ \A m \in SubNodes(n) :
          /\ m.op \in Evaluable
          /\ m.op \in {"Source", "Remote"} => m.arg[1] \in 1..Len(data)
    /\ sto.processed_stage # FetchColumns =>
          \A i \in 1..Len(data) :
              \A m \in SubNodes(RemoteStream(i)) : m.op \in Evaluable

\* CreatingSetsBlockInputStream creates the sets of its subqueries, one
\* subquery after the other, when it is read for the first time
CreateSet ==
    /\ pc = "done"
    /\ b.entry = "execute"
    /\ out[1].op = "CreatingSets"
    /\ run.sets_created < out[1].arg[1]
    /\ run' = [run EXCEPT !.sets_created = @ + 1]
    /\ UNCHANGED <<inputs, pc, self, pipeline, loc, err, out, rows>>

Pull ==
    /\ pc = "done"
    /\ b.entry = "execute"
    /\ CanPull(out[1])
    /\ out[1].op = "CreatingSets" => run.sets_created = out[1].arg[1]
    /\ rows' \in OutputsOf(out[1], LeafRows)
    /\ pc' = "pulled"
    /\ UNCHANGED <<inputs, run, self, pipeline, loc, err, out>>

NextData == Next \/ Pull

RECURSIVE Flat(_)
Flat(chains) == IF chains = <<>> THEN <<>> ELSE Head(chains) \o Flat(Tail(chains))

SeqsUpTo(S, n) == UNION {[1..m -> S] : m \in 0..n}

\* the ways to cut s into n consecutive chains
RECURSIVE Cuts(_, _)
Cuts(s, n) ==
    IF n = 1 THEN {<<s>>}
    ELSE UNION {{<<SubSeq(s, 1, k)>> \o c : c \in Cuts(SubSeq(s, k + 1, Len(s)), n - 1)} :
                k \in 0..Len(s)}

Splits(s) == UNION {Cuts(s, n) : n \in 1..MaxChains}

PlainRow(k, v) == <<k, v, 0>>

SortExample == <<PlainRow(1, 3), PlainRow(1, 1), PlainRow(1, 4), PlainRow(1, 1), PlainRow(1, 5)>>

GroupExample == <<PlainRow(1, 10), PlainRow(1, 20), PlainRow(2, 5)>>

\* single-column rows for LIMIT and ORDER BY
ValueRows == {PlainRow(1, v) : v \in 1..MaxVal}

\* (k, v) rows for GROUP BY k, SUM(v)
KeyedRows == {PlainRow(k, v) : k \in {1, 2}, v \in {1, MaxVal}}

LimitValues == 0..MaxLimit \cup {SizeMax}

LimitQueries ==
    {[BaseQuery EXCEPT !.has_limit = f.has_limit, !.order = f.order,
                       !.order_desc = f.order /\ f.desc,
                       !.limit_length = IF f.has_limit THEN f.len ELSE 0,
                       !.limit_offset = IF f.has_limit THEN f.off ELSE 0] :
        f \in {g \in [has_limit : BOOLEAN, order : BOOLEAN, desc : BOOLEAN,
                      len : LimitValues, off : LimitValues] :
                  /\ g.has_limit \/ g.order
                  /\ g.has_limit \/ (g.len = 0 /\ g.off = 0)
                  /\ g.order \/ ~g.desc}}

GroupQueries ==
    {[BaseQuery EXCEPT !.group = TRUE, !.has_aggregation = TRUE]}

DataSettings ==
    {[BaseSettings EXCEPT !.distributed_aggregation_memory_efficient = f.me,
                          !.max_bytes_before_external_group_by = f.ext] :
        f \in [me : BOOLEAN, ext : {0, 1}]}

\* the table is local, or remote with the first stage done by the shards
DataStorage(chains) ==
    {[BaseStorage EXCEPT !.read_streams = Len(chains), !.processed_stage = stage,
                         !.isRemote = stage # FetchColumns] :
        stage \in {FetchColumns, WithMergeableState}}

InitData ==
    /\ b = BaseBuilder
    /\ \/ /\ q \in LimitQueries
          /\ \E s \in SeqsUpTo(ValueRows, MaxRows) \cup {SortExample} :
                data \in Splits(s)
          /\ st = BaseSettings
       \/ /\ q \in GroupQueries
          /\ \E s \in SeqsUpTo(KeyedRows, MaxRows) \cup {GroupExample} :
                data \in Splits(s)
          /\ st \in DataSettings
    /\ sto \in DataStorage(data)
    /\ given = EmptyPipeline
    /\ InitRest

SpecData == InitData /\ [][NextData]_vars

\* SELECT DISTINCT v, with and without ORDER BY v and LIMIT
DistinctQueries ==
    {[BaseQuery EXCEPT !.distinct = TRUE, !.has_limit = f.has_limit,
                       !.order = f.order,
                       !.limit_length = IF f.has_limit THEN f.len ELSE 0,
                       !.limit_offset = IF f.has_limit THEN f.off ELSE 0] :
        f \in {g \in [has_limit : BOOLEAN, order : BOOLEAN,
                      len : LimitValues, off : LimitValues] :
                  g.has_limit \/ (g.len = 0 /\ g.off = 0)}}

InitDistinct ==
    /\ b = BaseBuilder
    /\ q \in DistinctQueries
    /\ \E s \in SeqsUpTo(ValueRows, MaxRows) \cup {SortExample} : data \in Splits(s)
    /\ st = BaseSettings
    /\ sto \in DataStorage(data)
    /\ given = EmptyPipeline
    /\ InitRest

SpecDistinct == InitDistinct /\ [][NextData]_vars

\* SELECT ... LIMIT 1 with and without WITH TOTALS and ORDER BY, from a table
\* or from selects nested in FROM up to MaxDepth deep, each with or without
\* WITH TOTALS (from_totals) and ORDER BY (from_order), outermost first
TotalsQueries ==
    {[BaseQuery EXCEPT !.has_limit = TRUE, !.limit_length = 1,
                       !.totals = f.totals, !.group = f.totals,
                       !.has_aggregation = f.totals, !.order = f.order,
                       !.table = IF n = 0 THEN "table" ELSE "subquery",
                       !.from_totals = ft, !.from_order = fo] :
        f \in [totals : BOOLEAN, order : BOOLEAN],
        n \in 0..MaxDepth, ft \in UNION {[1..m -> BOOLEAN] : m \in 0..MaxDepth},
        fo \in UNION {[1..m -> BOOLEAN] : m \in 0..MaxDepth}}

InitTotals ==
    /\ b \in {[BaseBuilder EXCEPT !.entry = e] : e \in Entries}
    /\ q \in {x \in TotalsQueries :
                 /\ Len(x.from_totals) = Len(x.from_order)
                 /\ x.table = "subquery" <=> Len(x.from_totals) > 0}
    /\ st = BaseSettings
    /\ sto \in {[BaseStorage EXCEPT !.read_streams = n] : n \in 1..MaxStreams}
    /\ data = <<>>
    /\ given = EmptyPipeline
    /\ InitRest

SpecTotals == InitTotals /\ [][Next]_vars

\* SELECT ... LIMIT offset, length with at most one more clause, or an
\* aggregate function without GROUP BY
BatchClauses ==
    {"none", "distinct", "prewhere", "where", "group", "having", "order",
     "limit_by", "aggregate"}

BatchQueries ==
    {[BaseQuery EXCEPT !.has_limit = f.has_limit,
                       !.limit_length = IF f.has_limit THEN f.len ELSE 0,
                       !.limit_offset = IF f.has_limit THEN f.off ELSE 0,
                       !.distinct = f.clause = "distinct",
                       !.prewhere = f.clause = "prewhere",
                       !.where = f.clause = "where",
                       !.group = f.clause \in {"group", "having"},
                       !.having = f.clause = "having",
                       !.order = f.clause = "order",
                       !.limit_by = f.clause = "limit_by",
                       !.has_aggregation =
                           f.clause \in {"group", "having", "aggregate"}] :
        f \in {g \in [has_limit : BOOLEAN, len : LimitValues, off : LimitValues,
                      clause : BatchClauses] :
                  g.has_limit \/ (g.len = 0 /\ g.off = 0)}}

BatchSettings ==
    {[BaseSettings EXCEPT !.max_threads = f.threads,
                          !.max_streams_to_max_threads_ratio = f.ratio] :
        f \in [threads : 1..MaxStreams, ratio : {1, DefaultThreads}]}

InitBatch ==
    /\ b \in {[BaseBuilder EXCEPT !.entry = e] : e \in Entries}
    /\ q \in BatchQueries
    /\ st \in BatchSettings
    /\ sto \in {[BaseStorage EXCEPT !.supportsPrewhere = TRUE, !.isRemote = r] :
                   r \in BOOLEAN}
    /\ data = <<>>
    /\ given = EmptyPipeline
    /\ InitRest

SpecBatch == InitBatch /\ [][Next]_vars

\* queries with a join; the build side of the join is one of the subqueries
\* for sets, an IN subquery may be another
JoinQueries ==
    {[BaseQuery EXCEPT !.join = f.join, !.sets = f.sets,
                       !.distinct = f.distinct, !.order = f.order,
                       !.has_limit = f.has_limit,
                       !.limit_length = IF f.has_limit THEN 1 ELSE 0,
                       !.has_aggregation = f.agg, !.group = f.agg] :
        f \in [join : {"Left", "Full", "Right"}, sets : 1..MaxSets,
               distinct : BOOLEAN, order : BOOLEAN, has_limit : BOOLEAN,
               agg : BOOLEAN]}

InitJoin ==
    /\ b \in StageBuilders
    /\ q \in JoinQueries
    /\ st = BaseSettings
    /\ sto \in StageStorages
    /\ data = <<>>
    /\ given = EmptyPipeline
    /\ InitRest

SpecJoin == InitJoin /\ [][Next]_vars

\* the GROUP BY builds alone
InitGroup ==
    /\ b = BaseBuilder
    /\ q \in GroupQueries
    /\ \E s \in SeqsUpTo(KeyedRows, MaxRows) \cup {GroupExample} : data \in Splits(s)
    /\ st \in DataSettings
    /\ sto \in DataStorage(data)
    /\ given = EmptyPipeline
    /\ InitRest

SpecGroup == InitGroup /\ [][NextData]_vars

(***************************************************************************)
(* Builds of queries with subqueries for sets (IN subqueries, the right    *)
(* side of joins), up to every stage, and reading their result.            *)
(***************************************************************************)
SetsQueries ==
    {[BaseQuery EXCEPT !.sets = f.sets, !.join = f.join, !.order = f.order,
                       !.has_limit = f.has_limit,
                       !.limit_length = IF f.has_limit THEN 1 ELSE 0] :
        f \in [sets : 0..MaxSets, join : {"None", "Full"}, order : BOOLEAN,
               has_limit : BOOLEAN]}

SetsExample == <<PlainRow(1, 1), PlainRow(1, MaxVal)>>

InitSets ==
    /\ b \in StageBuilders
    /\ q \in SetsQueries
    /\ st = BaseSettings
    /\ \E s \in {<<>>, SetsExample} : data \in Splits(s)
    /\ sto \in DataStorage(data)
    /\ given = EmptyPipeline
    /\ InitRest

NextSets == NextData \/ CreateSet

SpecSets == InitSets /\ [][NextSets]_vars

(***************************************************************************)
(* Builds that vary what init and executeFetchColumns depend on: the       *)
(* nesting depth and its cap, the source of the query, the column count    *)
(* and its cap, the clauses the storage must support.                      *)
(***************************************************************************)
Tables == {"table", "function", "subquery"}

DepthBuilders ==
    {[BaseBuilder EXCEPT !.subquery_depth = f.depth, !.entry = f.entry] :
        f \in [depth : 0..MaxDepth + 1, entry : Entries]}

DepthQueries ==
    {[BaseQuery EXCEPT !.table = f.table, !.has_settings = f.cap <= MaxDepth,
                       !.settings_max_subquery_depth =
                           IF f.cap <= MaxDepth THEN f.cap ELSE 0] :
        f \in [table : Tables, cap : 0..MaxDepth + 1]}

DepthSettings ==
    {[BaseSettings EXCEPT !.max_subquery_depth = d] : d \in 0..MaxDepth}

DepthStorages == {[BaseStorage EXCEPT !.exists = e] : e \in BOOLEAN}

ColumnBuilders ==
    {[BaseBuilder EXCEPT !.subquery_depth = f.depth, !.entry = f.entry,
                         !.has_input = f.has_input] :
        f \in [depth : {0, MaxDepth}, entry : Entries, has_input : BOOLEAN]}

ColumnQueries ==
    {[BaseQuery EXCEPT !.table = f.table, !.ncols = f.ncols,
                       !.ncols_alias = MaxColumns + 2 - f.ncols,
                       !.ncols_subquery = f.ncols,
                       !.alias_required = f.alias_required] :
        f \in [table : {"table", "subquery"}, ncols : 1..MaxColumns + 1,
               alias_required : BOOLEAN]}

ColumnSettings ==
    {[BaseSettings EXCEPT !.max_columns_to_read = f.cap, !.max_threads = f.threads] :
        f \in [cap : 0..MaxColumns, threads : 1..DefaultThreads]}

ColumnStorages ==
    {[BaseStorage EXCEPT !.has_aliases = f.has_aliases, !.read_streams = f.n,
                         !.subquery_streams = f.n,
                         !.processed_stage = f.stage,
                         !.isRemote = f.stage # FetchColumns] :
        f \in [has_aliases : BOOLEAN, n : 0..MaxStreams,
               stage : {FetchColumns, WithMergeableState}]}

\* the OnlyAnalyzeTag constructor serves getSampleBlock, at depth 0, without input
SupportBuilders ==
    {[BaseBuilder EXCEPT !.entry = f.entry, !.has_input = f.has_input] :
        f \in [entry : Entries, has_input : BOOLEAN]}
    \cup {[BaseBuilder EXCEPT !.entry = "getSampleBlock", !.only_analyze = TRUE]}

SupportQueries ==
    {[BaseQuery EXCEPT !.table = f.table, !.sample = f.sample, !.final = f.final,
                       !.prewhere = f.prewhere] :
        f \in [table : Tables, sample : BOOLEAN, final : BOOLEAN, prewhere : BOOLEAN]}

SupportStorages ==
    {[BaseStorage EXCEPT !.supportsSampling = f.sampling, !.supportsFinal = f.final,
                         !.supportsPrewhere = f.prewhere] :
        f \in [sampling : BOOLEAN, final : BOOLEAN, prewhere : BOOLEAN]}

\* queries that ask for a number of streams between none and MaxStreams, from
\* a local or a remote table
StreamsBuilders ==
    {[BaseBuilder EXCEPT !.entry = f.entry, !.has_input = f.has_input] :
        f \in [entry : Entries, has_input : BOOLEAN]}

StreamsQueries ==
    {[BaseQuery EXCEPT !.table = f.table, !.has_limit = f.has_limit,
                       !.limit_length = Bit(f.has_limit)] :
        f \in [table : Tables, has_limit : BOOLEAN]}

StreamsSettings ==
    {[BaseSettings EXCEPT !.max_threads = f.threads,
                          !.max_distributed_connections = f.connections] :
        f \in [threads : 0..MaxStreams, connections : {0, DefaultThreads}]}

StreamsStorages ==
    {BaseStorage,
     [BaseStorage EXCEPT !.isRemote = TRUE, !.processed_stage = WithMergeableState]}

InitFetch ==
    /\ \/ /\ b \in DepthBuilders
          /\ q \in DepthQueries
          /\ st \in DepthSettings
          /\ sto \in DepthStorages
       \/ /\ b \in ColumnBuilders
          /\ q \in ColumnQueries
          /\ st \in ColumnSettings
          /\ sto \in ColumnStorages
       \/ /\ b \in SupportBuilders
          /\ q \in SupportQueries
          /\ st = BaseSettings
          /\ sto \in SupportStorages
       \/ /\ b \in StreamsBuilders
          /\ q \in StreamsQueries
          /\ st \in StreamsSettings
          /\ sto \in StreamsStorages
    /\ data = <<>>
    /\ given = EmptyPipeline
    /\ InitRest

SpecFetch == InitFetch /\ [][Next]_vars

(***************************************************************************)
(* executeUnion called on a Pipeline of m main chains and s chains of      *)
(* non-joined data.                                                        *)
(***************************************************************************)
Collapse ==
    /\ pc = "given"
    /\ pipeline' = executeUnion(given, self.max_streams)
    /\ pc' = "collapsed"
    /\ UNCHANGED <<inputs, run, self, loc, err, out, rows>>

NextUnion == Collapse

MainChains ==
    {Leaf("Source", 1), Leaf("Source", 2),
     Wrap("Expression", "before_order_and_select", <<>>, Leaf("Source", 3))}

SideChains ==
    {Leaf("NonJoined", 1),
     Wrap("Expression", "before_order_and_select", <<>>, Leaf("NonJoined", 2))}

UnionPipelines ==
    {[streams |-> m, streams_with_non_joined_data |-> s] :
        m \in SeqsUpTo(MainChains, MaxChains + 1), s \in SeqsUpTo(SideChains, MaxChains)}

InitUnion ==
    /\ b = BaseBuilder
    /\ q = BaseQuery
    /\ st = BaseSettings
    /\ sto = BaseStorage
    /\ data = <<>>
    /\ given \in UnionPipelines
    /\ pc = "given"
    /\ \E n \in 1..MaxStreams : self = [NewBuilder(b, st) EXCEPT !.max_streams = n]
    /\ pipeline = given
    /\ loc = NoLocals
    /\ err = "none"
    /\ out = <<>>
    /\ rows = <<>>
    /\ run = NoRun

SpecUnion == InitUnion /\ [][NextUnion]_vars

(***************************************************************************)
(* Reading the UnionBlockInputStream that executeUnion builds.  Up to      *)
(* max_streams worker threads read the inputs concurrently and put what    *)
(* they get into the output queue; an exception of an input is put into    *)
(* the queue and cancels the other inputs; the worker that leaves the last *)
(* input puts the end marker; the consumer takes from the queue.           *)
(***************************************************************************)
Stopped(c) == c.status \in {"finished", "failed", "cancelled"}

AllStopped(chains) == \A i \in 1..Len(chains) : Stopped(chains[i])

\* the end of the stream is signalled once, by the worker leaving the last input
WithEnd(queue, chains) ==
    IF AllStopped(chains) THEN Append(queue, "end") ELSE queue

ReadUnion ==
    /\ pc = "collapsed"
    /\ pipeline.streams # <<>>
    /\ firstStream(pipeline).op = "Union"
    /\ pc' = "reading"
    /\ run' = [run EXCEPT
                  !.chains = [i \in 1..Len(firstStream(pipeline).in) |->
                                 [status |-> "ready", pos |-> 0]],
                  !.consumer = "reading"]
    /\ UNCHANGED <<inputs, self, pipeline, loc, err, out, rows>>

\* a free worker thread takes an input that is not being read
WorkerTake(i) ==
    /\ pc = "reading"
    /\ ~run.cancelled
    /\ run.chains[i].status = "ready"
    /\ Cardinality({j \in 1..Len(run.chains) : run.chains[j].status = "busy"})
          < firstStream(pipeline).arg[1]
    /\ run' = [run EXCEPT !.chains[i].status = "busy"]
    /\ UNCHANGED <<inputs, pc, self, pipeline, loc, err, out, rows>>

deliverSwallowing(i) ==
    LET c == run.chains[i]
        yielded == [run.chains EXCEPT ![i] = [status |-> "ready", pos |-> c.pos + 1]]
        failed == [run.chains EXCEPT ![i].status = "failed"]
        ended == [run.chains EXCEPT ![i].status = "finished"]
    IN  IF c.pos < data[i].blocks
        THEN [run EXCEPT !.chains = yielded, !.queue = Append(@, "block")]
        ELSE IF data[i].fails
        THEN [run EXCEPT !.chains = failed, !.queue = WithEnd(@, failed)]
        ELSE [run EXCEPT !.chains = ended, !.queue = WithEnd(@, ended)]

\* the read of input i returns: a block, the end of the input, or an exception
deliver(i) ==
    LET c == run.chains[i]
        yielded == [run.chains EXCEPT ![i] = [status |-> "ready", pos |-> c.pos + 1]]
        failed == [run.chains EXCEPT ![i].status = "failed"]
        ended == [run.chains EXCEPT ![i].status = "finished"]
    IN  IF c.pos < data[i].blocks
        THEN [run EXCEPT !.chains = yielded, !.queue = Append(@, "block")]
        ELSE IF data[i].fails
        THEN [run EXCEPT !.chains = failed, !.cancelled = TRUE,
                         !.queue = WithEnd(Append(@, "exception"), failed)]
        ELSE [run EXCEPT !.chains = ended, !.queue = WithEnd(@, ended)]

WorkerDeliver(i) ==
    /\ pc = "reading"
    /\ run.chains[i].status = "busy"
    /\ run' = deliver(i)
    /\ UNCHANGED <<inputs, pc, self, pipeline, loc, err, out, rows>>

\* after a cancel an input that is not being read is left as it is
WorkerCancel(i) ==
    /\ pc = "reading"
    /\ run.cancelled
    /\ run.chains[i].status = "ready"
    /\ LET left == [run.chains EXCEPT ![i].status = "cancelled"]
       IN  run' = [run EXCEPT !.chains = left, !.queue = WithEnd(@, left)]
    /\ UNCHANGED <<inputs, pc, self, pipeline, loc, err, out, rows>>

\* the consumer takes the head of the queue: a block is its next block, an
\* exception is rethrown to it (and cancels the union), the end marker ends
\* the stream
Consume ==
    /\ pc = "reading"
    /\ run.consumer = "reading"
    /\ run.queue # <<>>
    /\ run' = CASE Head(run.queue) = "block" ->
                     [run EXCEPT !.queue = Tail(@), !.received = @ + 1]
                 [] Head(run.queue) = "exception" ->
                     [run EXCEPT !.queue = Tail(@), !.consumer = "failed",
                                 !.cancelled = TRUE]
                 [] Head(run.queue) = "end" ->
                     [run EXCEPT !.queue = Tail(@), !.consumer = "finished"]
    /\ err' = IF Head(run.queue) = "exception" THEN "EXCEPTION" ELSE err
    /\ UNCHANGED <<inputs, pc, self, pipeline, loc, out, rows>>

NextRead ==
    \/ Collapse
    \/ ReadUnion
    \/ \E i \in 1..Len(run.chains) : WorkerTake(i)
    \/ \E i \in 1..Len(run.chains) : WorkerDeliver(i)
    \/ \E i \in 1..Len(run.chains) : WorkerCancel(i)
    \/ Consume

\* an input yields no block or one, and then ends or throws
Behaviours == [blocks : {0, 1}, fails : BOOLEAN]

ReadPipelines ==
    {[streams |-> Sources("Source", f.m),
      streams_with_non_joined_data |->
          IF f.side THEN <<Leaf("NonJoined", 1)>> ELSE <<>>] :
        f \in {g \in [m : 1..MaxChains, side : BOOLEAN] :
                   g.m + Bit(g.side) \in 2..MaxChains}}

InitRead ==
    /\ b = BaseBuilder
    /\ q = BaseQuery
    /\ st = BaseSettings
    /\ sto = BaseStorage
    /\ given \in ReadPipelines
    /\ data \in [1..Len(given.streams) + Len(given.streams_with_non_joined_data)
                    -> Behaviours]
    /\ pc = "given"
    /\ \E n \in 1..MaxStreams : self = [NewBuilder(b, st) EXCEPT !.max_streams = n]
    /\ pipeline = given
    /\ loc = NoLocals
    /\ err = "none"
    /\ out = <<>>
    /\ rows = <<>>
    /\ run = NoRun

\* the threads that can take a step keep taking steps
SpecRead == InitRead /\ [][NextRead]_vars /\ WF_vars(NextRead)

(***************************************************************************)
(* getAndLockStorageWithSchemaVersion.  sto is the catalog of the context: *)
(* whether the table exists, whether its storage is an IManageableStorage  *)
(* of engine TMT or DT, the schema version at which it was last altered,   *)
(* and the current version of the schema syncer.  loc holds the parameter  *)
(* and the locals of the call.  Other queries and syncSchemas change the   *)
(* catalog between the steps of the call.                                  *)
(***************************************************************************)
MaxVersion == 2

\* the sentinel of a version that was not read, below every version
DEFAULT_UNSPECIFIED_SCHEMA_VERSION == -1

Versions == 0..MaxVersion

Catalogs ==
    {[exists |-> FALSE, manageable |-> FALSE, schema_version |-> 0,
      global_schema_version |-> g] : g \in Versions}
    \cup {[exists |-> TRUE, manageable |-> FALSE, schema_version |-> 0,
           global_schema_version |-> g] : g \in Versions}
    \cup {[exists |-> TRUE, manageable |-> TRUE, schema_version |-> v,
           global_schema_version |-> g] : v \in Versions, g \in Versions}

\* Context::tryGetTable
tryGetTable(c) ==
    [storage |-> IF c.exists THEN "table" ELSE "null", err |-> "none"]

getTableOrNull(c) == tryGetTable(c)

\* Context::getTable: an exception when the table does not exist
getTable(c) ==
    IF c.exists
    THEN [storage |-> "table", err |-> "none"]
    ELSE [storage |-> "null", err |-> "UNKNOWN_TABLE"]

Attempt(storage_tmp, lock, version, ok, code) ==
    [storage_tmp |-> storage_tmp, lock |-> lock,
     storage_schema_version |-> version, ok |-> ok, err |-> code]

get_and_lock_storageUpToNext(c, schema_synced, query_version, global_version) ==
    LET t == IF schema_synced THEN getTable(c) ELSE tryGetTable(c)
    IN  IF t.err # "none"
        THEN Attempt("null", FALSE, DEFAULT_UNSPECIFIED_SCHEMA_VERSION, FALSE, t.err)
        ELSE IF t.storage = "null"
        THEN Attempt("null", FALSE, DEFAULT_UNSPECIFIED_SCHEMA_VERSION, FALSE, "none")
        ELSE IF ~c.manageable
        THEN Attempt("null", FALSE, DEFAULT_UNSPECIFIED_SCHEMA_VERSION, FALSE,
                     "LOGICAL_ERROR")
        ELSE IF c.schema_version > query_version + 1
        THEN Attempt("null", FALSE, c.schema_version, FALSE, "SchemaVersionError")
        ELSE IF schema_synced
        THEN Attempt(t.storage, TRUE, c.schema_version, TRUE, "none")
        ELSE IF c.schema_version = query_version
                \/ global_version >= query_version
        THEN Attempt(t.storage, TRUE, c.schema_version, TRUE, "none")
        ELSE Attempt("null", FALSE, c.schema_version, FALSE, "none")

\* the lambda get_and_lock_storage
get_and_lock_storage(c, schema_synced, query_version, global_version) ==
    LET t == IF schema_synced THEN getTable(c) ELSE tryGetTable(c)
    IN  IF t.err # "none"
        THEN Attempt("null", FALSE, DEFAULT_UNSPECIFIED_SCHEMA_VERSION, FALSE, t.err)
        ELSE IF t.storage = "null"
        THEN Attempt("null", FALSE, DEFAULT_UNSPECIFIED_SCHEMA_VERSION, FALSE, "none")
        ELSE IF ~c.manageable
        THEN Attempt("null", FALSE, DEFAULT_UNSPECIFIED_SCHEMA_VERSION, FALSE,
                     "LOGICAL_ERROR")
        ELSE IF c.schema_version > query_version
        THEN Attempt("null", FALSE, c.schema_version, FALSE, "SchemaVersionError")
        ELSE IF schema_synced
        THEN Attempt(t.storage, TRUE, c.schema_version, TRUE, "none")
        ELSE IF c.schema_version = query_version
                \/ global_version >= query_version
        THEN Attempt(t.storage, TRUE, c.schema_version, TRUE, "none")
        ELSE Attempt("null", FALSE, c.schema_version, FALSE, "none")

\* the parameter and the locals of the call; syncs counts the calls of
\* syncSchemas, tries those of get_and_lock_storage
NoCall ==
    [query_schema_version |-> 0, global_schema_version |-> 0,
     storage_schema_version |-> DEFAULT_UNSPECIFIED_SCHEMA_VERSION,
     ok |-> FALSE, schema_synced |-> FALSE, syncs |-> 0, tries |-> 0]

\* line 233: the current version of the schema syncer is read
ReadGlobalVersion ==
    /\ pc = "new"
    /\ loc' = [loc EXCEPT !.global_schema_version = sto.global_schema_version]
    /\ pc' = "called"
    /\ UNCHANGED <<inputs, self, err, run, pipeline, out, rows>>

\* what follows a call of the lambda: storage and table_lock are set and the
\* call returns when ok, the exception leaves the call, or next comes
Try(schema_synced, next, fallback) ==
    /\ LET r == get_and_lock_storage(sto, schema_synced, loc.query_schema_version,
                                     loc.global_schema_version)
       IN  /\ loc' = IF r.err # "none"
                      THEN [loc EXCEPT !.schema_synced = schema_synced,
                                       !.tries = @ + 1]
                      ELSE [loc EXCEPT
                               !.storage_schema_version = r.storage_schema_version,
                               !.ok = r.ok, !.schema_synced = schema_synced,
                               !.tries = @ + 1]
           /\ self' = IF r.ok
                      THEN [self EXCEPT !.storage = r.storage_tmp,
                                        !.table_lock = r.lock]
                      ELSE self
           /\ err' = IF r.err # "none" THEN r.err
                     ELSE IF r.ok THEN "none" ELSE fallback
           /\ pc' = IF r.err # "none" THEN "failed"
                    ELSE IF r.ok THEN "returned" ELSE next
    /\ UNCHANGED <<inputs, run, pipeline, out, rows>>

\* lines 289-298
FirstTry ==
    /\ pc = "called"
    /\ Try(FALSE, "first_failed", "none")

\* lines 302-306: syncSchemas brings the catalog to some later state
SyncSchemas ==
    /\ pc = "first_failed"
    /\ sto' \in Catalogs
    /\ loc' = [loc EXCEPT !.syncs = @ + 1]
    /\ pc' = "synced"
    /\ UNCHANGED <<b, q, st, data, given, self, err, run, pipeline, out, rows>>

\* lines 308-317
SecondTry ==
    /\ pc = "synced"
    /\ Try(TRUE, "failed", "UNKNOWN_EXCEPTION")

\* another query's DDL or schema sync while the call is between two steps
AlterSchema ==
    /\ pc \in {"called", "first_failed", "synced"}
    /\ sto' \in Catalogs \ {sto}
    /\ UNCHANGED <<pc, b, q, st, data, given, self, loc, err, run, pipeline,
                   out, rows>>

CallSteps == ReadGlobalVersion \/ FirstTry \/ SyncSchemas \/ SecondTry

NextSchema ==
    \/ ReadGlobalVersion
    \/ FirstTry
    \/ SyncSchemas
    \/ SecondTry
    \/ AlterSchema

InitSchema ==
    /\ b = BaseBuilder
    /\ q = BaseQuery
    /\ st = BaseSettings
    /\ sto \in Catalogs
    /\ data = <<>>
    /\ given = EmptyPipeline
    /\ pc = "new"
    /\ self = NewBuilder(b, st)
    /\ pipeline = EmptyPipeline
    /\ \E v \in Versions : loc = [NoCall EXCEPT !.query_schema_version = v]
    /\ err = "none"
    /\ out = <<>>
    /\ rows = <<>>
    /\ run = NoRun

SpecSchema == InitSchema /\ [][NextSchema]_vars /\ WF_vars(CallSteps)

(***************************************************************************)
(* Properties of the stage analysis and of the stage check.                *)
(***************************************************************************)
FirstStagePairs ==
    {<<FetchColumns, WithMergeableState>>, <<FetchColumns, Complete>>}

SecondStagePairs ==
    {<<FetchColumns, Complete>>, <<WithMergeableState, Complete>>}

\* C1: for every pair (from_stage, to_stage) of stages, analyzeExpressions sets
\* first_stage exactly when from_stage < WithMergeableState <= to_stage and
\* second_stage exactly when from_stage <= WithMergeableState < to_stage, for
\* the query of the build; and the flags the build works with after the stage
\* check are those of its own (from_stage, to_stage).
C1_StageFlags ==
    /\ \A from \in Stages, to \in Stages :
          /\ analyzeExpressions(q, from, to).first_stage
                <=> <<from, to>> \in FirstStagePairs
          /\ analyzeExpressions(q, from, to).second_stage
                <=> <<from, to>> \in SecondStagePairs
    /\ loc.analyzed =>
          /\ loc.expressions.first_stage
                <=> (loc.from_stage < WithMergeableState
                     /\ WithMergeableState <= b.to_stage)
          /\ loc.expressions.second_stage
                <=> (loc.from_stage <= WithMergeableState
                     /\ WithMergeableState < b.to_stage)

C1_Witness ==
    /\ pc = "analyzed"
    /\ loc.from_stage = FetchColumns
    /\ b.to_stage = Complete
    /\ loc.expressions.first_stage
    /\ loc.expressions.second_stage

\* C2 as stated: a build over a Source that reports WithMergeableState, with
\* to_stage = WithMergeableState, never returns a pipeline, in real and in
\* dry-run mode.
C2_RejectedInBothModes ==
    (sto.processed_stage = WithMergeableState /\ b.to_stage = WithMergeableState)
        => pc \notin {"built", "done"}

\* C2 amended: a real build in which the Source read reports
\* WithMergeableState while to_stage = WithMergeableState stops at the stage
\* check with NOT_IMPLEMENTED and never returns a pipeline, whatever the query;
\* a dry run does not read the Source, keeps from_stage = FetchColumns and is
\* not rejected.
C2_RejectedWhenRead ==
    /\ (loc.from_stage = WithMergeableState /\ b.to_stage = WithMergeableState)
          => /\ pc \in {"fetched", "failed"}
             /\ pc = "failed" => err = "NOT_IMPLEMENTED"
    /\ (~dryRun(b) /\ sto.processed_stage = WithMergeableState
            /\ b.to_stage = WithMergeableState)
          => pc \in {"new", "constructed", "fetched", "failed"}
    /\ (dryRun(b) /\ pc \notin {"new", "constructed"})
          => loc.from_stage = FetchColumns /\ err # "NOT_IMPLEMENTED"

C2_Witness ==
    /\ pc = "failed"
    /\ err = "NOT_IMPLEMENTED"
    /\ loc.from_stage = WithMergeableState
    /\ b.to_stage = WithMergeableState
    /\ q.group

IsLeaf(s) == s.in = <<>>

\* C3 as stated: when the stage check raises its error the Pipeline holds no
\* chain and the Source has not been read.
C3_RaisedBeforeFetch ==
    err = "NOT_IMPLEMENTED" => (pipeline.streams = <<>> /\ ~loc.source_read)

\* C3 amended: the error of the stage check is raised after Fetch and before
\* the stage analysis: the Source has been read, the Pipeline holds the chains
\* it returned, each a bare source stream, and no first-stage or second-stage
\* operator has been put on any of them.
C3_RaisedAfterFetch ==
    err = "NOT_IMPLEMENTED" =>
        /\ loc.source_read
        /\ ~loc.analyzed
        /\ pipeline.streams = Sources("Remote", sto.read_streams)
        /\ pipeline.streams # <<>>
        /\ \A i \in 1..Len(pipeline.streams) : IsLeaf(pipeline.streams[i])
        /\ pipeline.streams_with_non_joined_data = <<>>

C3_Witness ==
    /\ err = "NOT_IMPLEMENTED"
    /\ loc.source_read
    /\ Len(pipeline.streams) = MaxStreams
    /\ q.order

(***************************************************************************)
(* Properties of init and of executeFetchColumns.                          *)
(***************************************************************************)
\* the cap in force when init checks the depth
DepthCap == initSettings(q, st).max_subquery_depth

\* C4 as stated: the depth is checked against the cap configured when the
\* builder is constructed, and when TOO_DEEP_SUBQUERIES is raised nothing has
\* changed yet: the settings of the context are those it was constructed with.
C4_NothingBeforeDepthCheck ==
    /\ pc # "new" =>
          (self.err = "TOO_DEEP_SUBQUERIES" <=> tooDeep(st, b.subquery_depth))
    /\ self.err = "TOO_DEEP_SUBQUERIES" =>
          (self.settings = st /\ ~self.settings_applied)

\* C4 amended: init raises TOO_DEEP_SUBQUERIES exactly when the cap is non-zero
\* and the depth of the builder exceeds it, the cap being read after the query
\* context is set and the SETTINGS clause of the query is applied; it is raised
\* before the storage is resolved or locked, before the expression analyzer is
\* created and before any other check.  The builder of a FROM subquery is
\* created with depth + 1 and fails the same check in its own init.
C4_DepthCheckAfterSettings ==
    /\ pc # "new" =>
          (self.err = "TOO_DEEP_SUBQUERIES"
              <=> (DepthCap # 0 /\ b.subquery_depth > DepthCap))
    /\ self.err = "TOO_DEEP_SUBQUERIES" =>
          /\ self.query_context_set
          /\ self.settings_applied = q.has_settings
          /\ self.settings = initSettings(q, st)
          /\ self.storage = "null"
          /\ ~self.table_lock
          /\ self.source_columns = "none"
          /\ ~self.query_analyzer
          /\ self.checks = <<>>
          /\ ~self.external_tables_saved
          /\ self.max_streams = 0
    /\ (pc \notin {"new", "constructed"} /\ self.err = "none") =>
          (err = "TOO_DEEP_SUBQUERIES"
              <=> (/\ q.table = "subquery"
                   /\ DepthCap # 0
                   /\ b.subquery_depth + 1 > DepthCap))

C4_Witness ==
    /\ pc = "failed"
    /\ self.err = "TOO_DEEP_SUBQUERIES"
    /\ q.has_settings
    /\ ~tooDeep(st, b.subquery_depth)

\* the build got as far as the column check of executeFetchColumns
ReachedColumnCheck ==
    /\ pc \notin {"new", "constructed"}
    /\ self.err = "none"
    /\ err # "TOO_DEEP_SUBQUERIES"

\* C5: a build that gets to the column check raises TOO_MANY_COLUMNS exactly
\* when it is not a dry run, the cap max_columns_to_read is non-zero and the
\* number of required source columns exceeds it; a dry run never raises it.
C5_TooManyColumns ==
    /\ ReachedColumnCheck =>
          (err = "TOO_MANY_COLUMNS"
              <=> (/\ ~dryRun(b)
                   /\ st.max_columns_to_read # 0
                   /\ loc.required_columns > st.max_columns_to_read))
    /\ err = "TOO_MANY_COLUMNS" => (ReachedColumnCheck /\ pc = "failed")
    /\ dryRun(b) => err # "TOO_MANY_COLUMNS"

C5_Witness ==
    /\ err = "TOO_MANY_COLUMNS"
    /\ ~dryRun(b)
    /\ loc.required_columns = st.max_columns_to_read + 1

\* the stream a chain starts from
RECURSIVE SourceOf(_)
SourceOf(s) == IF s.in = <<>> THEN s ELSE SourceOf(s.in[1])

FetchedFromTable == pc = "fetched" /\ self.storage # "null"

\* C7: when the storage returns no stream, or is not read because the build
\* is a dry run, executeFetchColumns raises nothing for that and leaves
\* exactly one chain, a NullBlockInputStream over the required columns; after
\* a fetch from a table the Pipeline holds at least one chain.  (The errors a
\* fetch from a table does raise are those of the column cap and of a request
\* for zero streams.)
C7_EmptySourceSubstituted ==
    /\ FetchedFromTable => Len(pipeline.streams) >= 1
    /\ (FetchedFromTable /\ (loc.dry_run \/ sto.read_streams = 0)) =>
          /\ Len(pipeline.streams) = 1
          /\ SourceOf(firstStream(pipeline)) = NullStream(loc.required_columns)
          /\ firstStream(pipeline).op \in {"Null", "Expression"}
    /\ (self.storage # "null" /\ self.err = "none" /\ err # "none") =>
          \/ err = "TOO_MANY_COLUMNS"
          \/ err = "LOGICAL_ERROR" /\ self.max_streams = 0

C7_Witness ==
    /\ FetchedFromTable
    /\ ~loc.dry_run
    /\ sto.read_streams = 0
    /\ pipeline.streams = <<NullStream(loc.required_columns)>>

\* the build read its rows from the select nested in FROM
FetchedFromSubquery == pc = "fetched" /\ q.table = "subquery" /\ ~b.has_input

AllNodes == UNION {SubNodes(pipeline.streams[i]) : i \in 1..Len(pipeline.streams)}

\* C12 as stated: after the fetch from a FROM subquery the Pipeline holds a
\* single chain in a real run, and in a dry run a single zero-row stream with
\* the columns of the subquery, the Source of the nested query not being read.
C12_SingleChain ==
    FetchedFromSubquery =>
        /\ Len(pipeline.streams) = 1
        /\ loc.dry_run =>
              /\ firstStream(pipeline) = NullStream(q.ncols_subquery)
              /\ ~loc.nested.source_read

\* C12 amended: in a real run the fetch from a FROM subquery puts the chains
\* of the nested build into the Pipeline as they are, one per stream the
\* nested Source returned (one Null chain when it returned none), each built
\* up to the final projection of the nested select and none collapsed; in a
\* dry run it puts a single zero-row stream with the columns of the subquery
\* and the nested Source is not read.  With a prepared input the nested
\* builder is created and contributes nothing.
C12_ChainsOfNestedBuild ==
    /\ (FetchedFromSubquery /\ ~loc.dry_run) =>
          /\ loc.nested.created /\ loc.nested.executed /\ ~loc.nested.analyzed
          /\ loc.nested.source_read
          /\ Len(pipeline.streams) =
                IF sto.subquery_streams = 0 THEN 1 ELSE sto.subquery_streams
          /\ pipeline.streams_with_non_joined_data = <<>>
          /\ \A i \in 1..Len(pipeline.streams) :
                /\ pipeline.streams[i].tag = "final_projection"
                /\ SourceOf(pipeline.streams[i]) =
                      IF sto.subquery_streams = 0
                      THEN NullStream(q.ncols_subquery) ELSE Leaf("Source", i)
          /\ \A n \in AllNodes : n.op # "Union"
    /\ (FetchedFromSubquery /\ loc.dry_run) =>
          /\ loc.nested.created /\ loc.nested.analyzed /\ ~loc.nested.executed
          /\ ~loc.nested.source_read
          /\ pipeline.streams = <<NullStream(q.ncols_subquery)>>
          /\ pipeline.streams_with_non_joined_data = <<>>
    /\ (pc = "fetched" /\ q.table = "subquery" /\ b.has_input) =>
          /\ loc.nested.created /\ ~loc.nested.executed /\ ~loc.nested.analyzed
          /\ pipeline.streams = <<Leaf("Input", 0)>>

C12_Witness ==
    /\ FetchedFromSubquery
    /\ ~loc.dry_run
    /\ loc.nested.executed
    /\ sto.subquery_streams = MaxStreams
    /\ Len(pipeline.streams) = MaxStreams
    /\ MaxStreams > 1

(***************************************************************************)
(* Properties of executeUnion.                                             *)
(***************************************************************************)
GivenChains == given.streams \o given.streams_with_non_joined_data

\* C6: executeUnion on a Pipeline of m main and s side chains leaves it as it
\* is when m + s = 0; creates no stream and leaves the single chain as the only
\* main chain when m + s = 1; replaces the chains by one UnionBlockInputStream
\* over all m + s of them when m + s >= 2.  With m + s >= 1 exactly one main
\* chain remains, no side chain remains, and every chain given is reachable
\* from the remaining one.
C6_Collapse ==
    pc = "collapsed" =>
        /\ Len(GivenChains) = 0 => pipeline = given
        /\ Len(GivenChains) = 1 =>
              pipeline = [streams |-> GivenChains,
                          streams_with_non_joined_data |-> <<>>]
        /\ Len(GivenChains) >= 2 =>
              /\ Len(pipeline.streams) = 1
              /\ firstStream(pipeline).op = "Union"
              /\ firstStream(pipeline).in = GivenChains
        /\ Len(GivenChains) >= 1 =>
              /\ Len(pipeline.streams) = 1
              /\ pipeline.streams_with_non_joined_data = <<>>
              /\ \A i \in 1..Len(GivenChains) :
                    GivenChains[i] \in SubNodes(firstStream(pipeline))

C6_Witness ==
    /\ pc = "collapsed"
    /\ given.streams = <<>>
    /\ Len(given.streams_with_non_joined_data) = 1
    /\ pipeline.streams = given.streams_with_non_joined_data

(***************************************************************************)
(* Properties of the rows the built pipeline yields.                       *)
(***************************************************************************)
Available == Len(Flat(data))

Sorted == SortRows(Flat(data), getSortDescription(q))

\* C8: LIMIT offset, length without ORDER BY, over any split of the rows into
\* chains, yields min(length, available - offset) rows when more than offset
\* rows are available and no row otherwise.
C8_LimitCount ==
    (pc = "pulled" /\ q.has_limit /\ ~q.order) =>
        Len(rows) = IF Available > q.limit_offset
                    THEN Min(q.limit_length, Available - q.limit_offset)
                    ELSE 0

\* C9: ORDER BY over any split of the rows into chains yields the rows in the
\* order of sorting the concatenation of the chains, and with LIMIT offset,
\* length the rows at positions [offset, offset + length) of that order.
C9_SortedThenLimited ==
    (pc = "pulled" /\ q.order) =>
        rows = IF q.has_limit
               THEN LimitRows(Sorted, q.limit_length, q.limit_offset)
               ELSE Sorted

\* the stream execute() returns for the same query over a table read as one
\* local chain holding all the rows
SingleChainStream ==
    firstStream(executeUnion(
        BuildStages([EmptyPipeline EXCEPT !.streams = <<Leaf("Source", 1)>>],
                    q, self.settings, self.max_streams, FetchColumns, Complete),
        self.max_streams))

\* C10: for a GROUP BY query the finalized result over any split of the rows
\* into chains, aggregated in parallel or merged from the partial states of
\* the shards, holds the same (key, aggregate) pairs as the result of the
\* single aggregator over all the rows in one chain: one pair per key, with
\* the aggregate over all the rows of the key.
C10_SplitIndependent ==
    (pc = "pulled" /\ q.group) =>
        /\ \E single \in OutputsOf(SingleChainStream, <<Flat(data)>>) :
              /\ SeqToSet(rows) = SeqToSet(single)
              /\ Len(rows) = Len(single)
        /\ SeqToSet(rows) = {<<k, SumOf(Flat(data), k), 0>> : k \in KeysOf(Flat(data))}
        /\ Len(rows) = Cardinality(KeysOf(Flat(data)))

C10_Witness ==
    /\ pc = "pulled"
    /\ q.group
    /\ Len(data) = MaxChains
    /\ Flat(data) = GroupExample
    /\ data[1] # <<>>
    /\ data[2] # <<>>
    /\ \E n \in SubNodes(out[1]) : n.op = "ParallelAggregating"
    /\ SeqToSet(rows) = {PlainRow(1, 30), PlainRow(2, 5)}

(***************************************************************************)
(* Builds that vary the clauses with an optional step of their own (JOIN,  *)
(* WHERE, HAVING, LIMIT BY) over every pair of stages.                     *)
(***************************************************************************)
PlanQueries ==
    {[BaseQuery EXCEPT !.where = f.where, !.join = f.join, !.order = f.order,
                       !.limit_by = f.limit_by,
                       !.has_aggregation = f.agg # "no", !.group = f.agg # "no",
                       !.having = f.agg = "having"] :
        f \in [where : BOOLEAN, join : {"None", "Inner", "Full"}, order : BOOLEAN,
               limit_by : BOOLEAN, agg : {"no", "yes", "having"}]}

InitPlan ==
    /\ b \in StageBuilders
    /\ q \in PlanQueries
    /\ st = BaseSettings
    /\ sto \in StageStorages
    /\ data = <<>>
    /\ given = EmptyPipeline
    /\ InitRest

SpecPlan == InitPlan /\ [][Next]_vars

(***************************************************************************)
(* Properties of the compiled plan.                                        *)
(***************************************************************************)
\* some stream of the Pipeline was built with the program tag
Attached(tag) ==
    \E s \in SeqToSet(pipeline.streams \o pipeline.streams_with_non_joined_data) :
        \E n \in SubNodes(s) : n.tag = tag

\* the steps of the plan appended with the flag only_types
StepsAppended(only_types) ==
    {loc.expressions.programs[i].step :
        i \in {j \in 1..Len(loc.expressions.programs) :
                  loc.expressions.programs[j].only_types = only_types}}

\* C11 as stated: in the plan of a build the program of JOIN and of WHERE is
\* present exactly when the query has the clause and first_stage holds, the
\* program of HAVING and of LIMIT BY exactly when the query has the clause and
\* second_stage holds.
C11_PresentIffApplicable ==
    loc.analyzed =>
        /\ loc.expressions.has_join
              <=> (q.join # "None" /\ loc.expressions.first_stage)
        /\ loc.expressions.has_where
              <=> (q.where /\ loc.expressions.first_stage)
        /\ loc.expressions.has_having
              <=> (q.having /\ loc.expressions.second_stage)
        /\ loc.expressions.has_limit_by
              <=> (q.limit_by /\ loc.expressions.second_stage)

\* C11 amended: the program of a step is present exactly when the query has
\* the clause (for HAVING: and aggregates), whatever the pair of stages; the
\* stages decide whether it is compiled for real or with types only (JOIN and
\* WHERE for real exactly with first_stage, HAVING and LIMIT BY exactly with
\* second_stage), and the finished Pipeline holds an operator built with the
\* program exactly when the clause exists and the stage of the step is built.
C11_PresentIffClause ==
    /\ loc.analyzed =>
          /\ loc.expressions.has_join <=> q.join # "None"
          /\ loc.expressions.has_where <=> q.where
          /\ loc.expressions.has_having <=> (q.having /\ hasAggregation(q))
          /\ loc.expressions.has_limit_by <=> q.limit_by
          /\ StepsAppended(loc.expressions.first_stage)
                \cap {"before_join", "before_where"} = {}
          /\ StepsAppended(loc.expressions.second_stage)
                \cap {"before_having", "before_limit_by"} = {}
          /\ StepsAppended(TRUE) \cup StepsAppended(FALSE) =
                {"before_order_and_select", "final_projection"}
                \cup (IF q.join # "None" THEN {"before_join"} ELSE {})
                \cup (IF q.where THEN {"before_where"} ELSE {})
                \cup (IF hasAggregation(q) THEN {"before_aggregation"} ELSE {})
                \cup (IF q.having /\ hasAggregation(q) THEN {"before_having"} ELSE {})
                \cup (IF q.limit_by THEN {"before_limit_by"} ELSE {})
    /\ pc \in {"built", "done"} =>
          /\ Attached("before_join")
                <=> (q.join # "None" /\ loc.expressions.first_stage)
          /\ Attached("where") <=> (q.where /\ loc.expressions.first_stage)
          /\ Attached("having")
                <=> (q.having /\ hasAggregation(q) /\ loc.expressions.second_stage)
          /\ Attached("before_limit_by")
                <=> (q.limit_by /\ loc.expressions.second_stage)

C11_Witness ==
    /\ pc = "done"
    /\ loc.from_stage = WithMergeableState
    /\ b.to_stage = Complete
    /\ q.where
    /\ q.join = "Full"
    /\ loc.expressions.has_where
    /\ loc.expressions.has_join
    /\ "before_where" \in StepsAppended(TRUE)
    /\ ~Attached("where")
    /\ ~Attached("before_join")

(***************************************************************************)
(* Properties of the subqueries for sets.                                  *)
(***************************************************************************)
AllChains == pipeline.streams \o pipeline.streams_with_non_joined_data

\* the streams of class op among the chains of the Pipeline
NodesOf(op) ==
    {n \in UNION {SubNodes(AllChains[i]) : i \in 1..Len(AllChains)} : n.op = op}

\* C13: a build whose plan has subqueries for sets ends, for every to_stage
\* (FetchColumns included) and in every run mode, with exactly one chain, headed
\* by the one CreatingSets stream of the Pipeline, built over all the
\* subqueries, with every other stream below it; a build without them has no
\* such stream.  When the result is read the sets are created one subquery at
\* a time and all of them exist before a row of the outer query is yielded.
C13_SetsBeforeRows ==
    /\ (pc \in {"built", "done", "pulled"} /\ q.sets # 0) =>
          /\ loc.expressions.subqueries_for_sets = q.sets
          /\ Len(pipeline.streams) = 1
          /\ pipeline.streams_with_non_joined_data = <<>>
          /\ firstStream(pipeline).op = "CreatingSets"
          /\ firstStream(pipeline).arg = <<q.sets>>
          /\ NodesOf("CreatingSets") = {firstStream(pipeline)}
    /\ q.sets = 0 => NodesOf("CreatingSets") = {}
    /\ pc \in {"new", "constructed", "fetched", "analyzed", "first_done", "second_done"}
          => NodesOf("CreatingSets") = {}
    /\ run.sets_created \in 0..q.sets
    /\ (pc = "pulled" \/ rows # <<>>) => run.sets_created = q.sets
    /\ run.sets_created > 0 => pc \in {"done", "pulled"}

C13_Witness ==
    /\ pc = "pulled"
    /\ b.to_stage = FetchColumns
    /\ q.sets = MaxSets
    /\ run.sets_created = MaxSets
    /\ Len(data) = MaxChains
    /\ Len(rows) = Len(SetsExample)
    /\ out[1].op = "CreatingSets"
    /\ out[1].in[1].op = "Union"

(***************************************************************************)
(* Properties of reading a union.                                          *)
(***************************************************************************)
AnyFailed == \E i \in 1..Len(run.chains) : run.chains[i].status = "failed"

\* C14: when the inputs of a UnionBlockInputStream are read concurrently and
\* one of them throws, the consumer never gets the end of the stream: it gets
\* the exception, the union is cancelled, and every other input ends up
\* finished or left unread (cancelled), none stays being read.
C14_NoSilentPartialResult ==
    /\ [](run.consumer = "finished" => ~AnyFailed)
    /\ [](AnyFailed => run.cancelled)
    /\ AnyFailed ~> (run.consumer = "failed" /\ err = "EXCEPTION"
                       /\ AllStopped(run.chains))

\* the build reads a table: no prepared input and no FROM subquery
ReadsTable == ~b.has_input /\ q.table # "subquery"

NoSourceRead ==
    /\ ~loc.source_read
    /\ ~loc.nested.source_read
    /\ NodesOf("Source") = {}
    /\ NodesOf("Remote") = {}

\* the error init raises for the first of SAMPLE, FINAL, PREWHERE that the
\* query asks for and the source cannot give
ClauseError ==
    LET no_storage == b.has_input \/ q.table = "subquery"
    IN  IF q.sample /\ (no_storage \/ ~sto.supportsSampling)
        THEN "SAMPLING_NOT_SUPPORTED"
        ELSE IF q.final /\ (no_storage \/ ~sto.supportsFinal)
        THEN "ILLEGAL_FINAL"
        ELSE IF q.prewhere /\ (no_storage \/ ~sto.supportsPrewhere)
        THEN "ILLEGAL_PREWHERE"
        ELSE "none"

EarlierError == {"TOO_DEEP_SUBQUERIES", "UNKNOWN_TABLE"}

\* C15: a build that is not analyze-only, of a query with SAMPLE, FINAL or
\* PREWHERE that reads from a prepared input, has no storage or has a storage
\* without that capability, fails in the constructor with the error of that
\* clause, before executeFetchColumns has run; a table read that asks for zero
\* streams fails in executeFetchColumns with LOGICAL_ERROR and the table is
\* not read; and no step follows a failure.
C15_Rejected ==
    /\ [](pc # "new" /\ ~b.only_analyze /\ ClauseError # "none"
            => /\ pc = "failed"
               /\ err \in EarlierError \cup {ClauseError}
               /\ loc = NoLocals
               /\ pipeline = EmptyPipeline)
    /\ [](pc \notin {"new", "constructed"} /\ self.err = "none" /\ ReadsTable
            /\ self.max_streams = 0
            => /\ pc = "failed"
               /\ err \in {"LOGICAL_ERROR", "TOO_MANY_COLUMNS"}
               /\ NoSourceRead)
    /\ [][pc # "failed"]_vars

C15_WitnessZeroStreams ==
    /\ pc = "failed"
    /\ err = "LOGICAL_ERROR"
    /\ ReadsTable
    /\ sto.isRemote
    /\ st.max_threads > 0
    /\ st.max_distributed_connections = 0
    /\ NoSourceRead

C15_Witness ==
    /\ pc = "failed"
    /\ err = "ILLEGAL_FINAL"
    /\ q.final /\ sto.supportsFinal /\ b.has_input
    /\ loc = NoLocals

RECURSIVE Spine(_)
\* the streams from the head of a chain down to the first one that has not
\* exactly one child
Spine(n) == <<n>> \o (IF Len(n.in) = 1 THEN Spine(n.in[1]) ELSE <<>>)

Label(n) == <<n.op, n.tag>>

\* the second stage of a build that goes beyond FetchColumns has run, and
\* nothing after it
SecondStageBuilt ==
    pc = "second_done" /\ b.to_stage > FetchColumns /\ loc.expressions.second_stage

\* the streams the tail of the second stage puts on a chain, the last one first
ExpectedTail ==
    (IF q.has_limit THEN <<<<"Limit", "">>>> ELSE <<>>)
    \o <<<<"Expression", "final_projection">>>>
    \o (IF q.limit_by
        THEN <<<<"LimitBy", "">>, <<"Expression", "before_limit_by">>>> ELSE <<>>)

TailLabels ==
    {<<"Expression", "final_projection">>, <<"LimitBy", "">>,
     <<"Expression", "before_limit_by">>}

\* C16: after the second stage every chain is headed, from the top down, by the
\* final LIMIT (if the query has LIMIT), the final projection, which carries
\* the extremes flag when extremes are on and is the only stream that does,
\* LIMIT BY over its expression program (if the query has LIMIT BY); every
\* DISTINCT and every Union is below them, and none of the tail streams occurs
\* further down.
C16_TailOrder ==
    SecondStageBuilt =>
        \A i \in 1..Len(AllChains) :
            LET s == Spine(AllChains[i])
                k == Len(ExpectedTail)
            IN  /\ Len(s) > k
                /\ \A j \in 1..k :
                       /\ Label(s[j]) = ExpectedTail[j]
                       /\ s[j].extremes
                            = (st.extremes /\ s[j].tag = "final_projection")
                /\ q.has_limit =>
                       s[1].arg = <<getLimitLength(q), getLimitOffset(q),
                                    Bit(always_read_till_end(q))>>
                /\ \A n \in SubNodes(s[k + 1]) :
                       Label(n) \notin TailLabels /\ ~n.extremes

C16_Witness ==
    /\ SecondStageBuilt
    /\ q.has_limit /\ q.limit_by /\ q.distinct /\ st.extremes
    /\ Len(pipeline.streams) = 1
    /\ LET s == Spine(pipeline.streams[1])
       IN  /\ Len(s) >= 6
           /\ s[5].op = "Distinct"
           /\ s[6].op = "Union"

\* the step of executeImpl that runs the second stage
SecondStageStep ==
    /\ pc = "first_done" /\ pc' = "second_done"
    /\ b.to_stage > FetchColumns /\ loc.expressions.second_stage

\* the Pipeline of the state, taken through the second stage up to the
\* preliminary LIMIT (lines 552-599)
BeforeCollapse ==
    preLimit(orderOrMergeSorted(
                 afterAggregation(pipeline, q, self.settings, self.max_streams,
                                  loc.expressions, b.to_stage),
                 q, self.max_streams, loc.expressions, b.to_stage),
             q, self.settings, loc.expressions)

\* lines 571 and 575
SecondPassPending ==
    q.distinct
    /\ hasMoreThanOneStream(
           IF loc.expressions.need_aggregate
           THEN afterAggregation(pipeline, q, self.settings, self.max_streams,
                                 loc.expressions, b.to_stage)
           ELSE pipeline)

CollapseRequired ==
    \/ SecondPassPending
    \/ q.has_limit
    \/ q.limit_by
    \/ BeforeCollapse.streams_with_non_joined_data # <<>>

\* the streams of the chains of p that BeforeCollapse does not have yet and
\* that need a single chain: DISTINCT, LIMIT BY, and the LIMIT heading a chain
AfterCollapse(p) ==
    LET chains == p.streams \o p.streams_with_non_joined_data
        all == UNION {SubNodes(chains[i]) : i \in 1..Len(chains)}
        old == BeforeCollapse.streams \o BeforeCollapse.streams_with_non_joined_data
        before == UNION {SubNodes(old[i]) : i \in 1..Len(old)}
    IN  {n \in all \ before : n.op \in {"LimitBy", "Distinct"}}
        \cup (IF q.has_limit THEN {chains[i] : i \in 1..Len(chains)} ELSE {})

\* C17: the second stage collapses the chains exactly when a second DISTINCT
\* pass is pending, or the query has LIMIT or LIMIT BY, or the side channel is
\* not empty.  When it does, it leaves one chain and an empty side channel,
\* and the second DISTINCT, LIMIT BY and the final LIMIT are streams of that
\* one chain above the point of the collapse; when it does not, the chains
\* stay as many as they were and get the final projection only.
C17_CollapseIff ==
    [][SecondStageStep =>
          IF CollapseRequired
          THEN /\ Len(pipeline'.streams) = 1
               /\ pipeline'.streams_with_non_joined_data = <<>>
               /\ \A n \in AfterCollapse(pipeline') :
                      \E j \in 1..Len(Spine(pipeline'.streams[1])) :
                          Spine(pipeline'.streams[1])[j] = n
               /\ SecondPassPending =>
                      \E n \in AfterCollapse(pipeline') : n.op = "Distinct"
               /\ hasMoreThanOneStream(BeforeCollapse) =>
                      \E n \in SubNodes(pipeline'.streams[1]) :
                          /\ n.op = "Union"
                          /\ n.in = BeforeCollapse.streams
                                 \o BeforeCollapse.streams_with_non_joined_data
          ELSE pipeline' = executeExtremes(executeProjection(BeforeCollapse),
                                           self.settings)
      ]_vars

C17_Witness ==
    /\ SecondStageBuilt
    /\ q.distinct /\ ~q.has_limit /\ ~q.limit_by /\ ~q.order
    /\ q.join = "None"
    /\ sto.read_streams > 1
    /\ Len(pipeline.streams) = 1
    /\ LET s == Spine(pipeline.streams[1])
       IN  /\ s[2].op = "Distinct"
           /\ s[3].op = "Union"

\* without any of the four reasons the chains stay apart
C17_WitnessApart ==
    /\ SecondStageBuilt
    /\ Len(pipeline.streams) > 1
    /\ \A i \in 1..Len(pipeline.streams) :
           Label(pipeline.streams[i]) = <<"Expression", "final_projection">>

\* the Pipeline of the state, taken through the second stage up to the sort
\* (lines 552-591)
BeforePreLimit ==
    orderOrMergeSorted(
        afterAggregation(pipeline, q, self.settings, self.max_streams,
                         loc.expressions, b.to_stage),
        q, self.max_streams, loc.expressions, b.to_stage)

NodesIn(p) ==
    UNION {SubNodes((p.streams \o p.streams_with_non_joined_data)[i]) :
              i \in 1..Len(p.streams) + Len(p.streams_with_non_joined_data)}

PreLimitApplies ==
    /\ q.has_limit
    /\ hasMoreThanOneStream(BeforePreLimit)
    /\ ~q.distinct
    /\ ~q.limit_by
    /\ ~st.extremes

\* what the step of the second stage does about the preliminary LIMIT: when
\* it applies, every chain, as it was after the sort, gets a Limit of length
\* offset + length, offset 0, not reading till the end, and these Limits are
\* the inputs of the Union of the collapse; otherwise the only Limit the
\* second stage adds is the final one
PreLimitStep ==
    SecondStageStep =>
        LET in == BeforePreLimit
            chains == in.streams \o in.streams_with_non_joined_data
            limits == {n \in NodesIn(pipeline') \ NodesIn(in) : n.op = "Limit"}
        IN  IF PreLimitApplies
            THEN /\ Cardinality(limits) = Len(chains) + 1
                 /\ \E u \in NodesIn(pipeline') :
                        /\ u.op = "Union"
                        /\ u.in =
                              [i \in 1..Len(chains) |->
                                  Wrap("Limit", "",
                                       <<q.limit_offset + q.limit_length, 0, 0>>,
                                       chains[i])]
            ELSE Cardinality(limits) = Bit(q.has_limit)

\* C18: the second stage puts a preliminary LIMIT on the chains exactly when
\* the query has LIMIT, more than one chain is left after the sort, and there
\* is no DISTINCT, no LIMIT BY and no extremes; then every chain gets a Limit
\* of length offset + length, offset 0, without the read-till-end flag, below
\* the Union of the collapse.
C18_PreLimit == [][PreLimitStep]_vars

\* the same for the queries whose offset + length fits size_t
C18_PreLimitInRange ==
    [][q.limit_offset + q.limit_length <= SizeMax => PreLimitStep]_vars

\* the coordinator takes the merge-only path for ORDER BY
MergeOnly ==
    /\ ~loc.expressions.first_stage
    /\ ~loc.expressions.need_aggregate
    /\ ~(q.totals /\ ~aggregate_final(q, loc.expressions, b.to_stage))

\* the chain a shard builds for the query: the partial sort of each of its
\* chains and the merge of the sorted parts, with the Sort Description of the
\* query, DISTINCT when the query has it, and on top a Limit of the given
\* length and offset 0 (under the stream creating the sets, if there is one)
SortedOnShard(c, length) ==
    LET s == IF c.op = "CreatingSets" THEN Tail(Spine(c)) ELSE Spine(c)
        k == Bit(q.has_limit)
        d == k + Bit(q.has_limit /\ q.distinct)
    IN  /\ Len(s) >= d + 2
        /\ q.has_limit => Label(s[1]) = <<"Limit", "">> /\ s[1].arg = <<length, 0, 0>>
        /\ q.has_limit /\ q.distinct => s[d].op = "Distinct"
        /\ Label(s[d + 1]) = <<"MergeSorting", getSortDescription(q)>>
        /\ LET sorted(n) == Label(n) = <<"PartialSorting", getSortDescription(q)>>
           IN  \/ sorted(s[d + 2])
               \/ /\ s[d + 2].op = "Union"
                  /\ \A j \in 1..Len(s[d + 2].in) : sorted(s[d + 2].in[j])

SortPath(length) ==
    SecondStageBuilt /\ q.order =>
        IF MergeOnly
        THEN /\ NodesOf("MergeSorting") = {} /\ NodesOf("PartialSorting") = {}
             /\ sto.read_streams > 1 =>
                    \E n \in NodesOf("MergingSorted") :
                        n.tag = getSortDescription(q)
             /\ sto.processed_stage = WithMergeableState
             /\ \A i \in 1..sto.read_streams : SortedOnShard(RemoteStream(i), length)
        ELSE /\ NodesOf("MergingSorted") = {}
             /\ \E n \in NodesOf("MergeSorting") : n.tag = getSortDescription(q)

\* C19: for a query with ORDER BY the second stage merges sorted chains
\* (MergingSorted, no sort of its own) exactly when first_stage is false, there
\* is no aggregation and no totals waiting to be finalized, and sorts afresh
\* otherwise; and whenever it merges, every chain it reads was built by the
\* shard, for the same query up to WithMergeableState, with the partial sort
\* of the same Sort Description and a Limit of length offset + length and
\* offset 0.
C19_MergeOnlyOverSorted == SortPath(q.limit_offset + q.limit_length)

\* the same with the length as executePreLimit computes it
C19_MergeOnlyOverSortedWrapped == SortPath(LimitSum(q))

C19_Witness ==
    /\ SecondStageBuilt /\ q.order /\ q.has_limit /\ MergeOnly
    /\ sto.read_streams > 1
    /\ NodesOf("MergingSorted") # {}

\* the step of executeImpl that runs the first stage of a query with
\* aggregation
AggregationStep ==
    /\ pc = "analyzed" /\ pc' = "first_done"
    /\ b.to_stage > FetchColumns
    /\ loc.expressions.first_stage /\ loc.expressions.need_aggregate

\* the chains the aggregation finds: those of the Pipeline before the step,
\* and in the side channel the non-joined rows of a FULL or RIGHT JOIN
ChainsToAggregate == Len(pipeline.streams)

NonJoinedToAggregate == Bit(loc.expressions.has_join /\ q.join \in {"Full", "Right"})

\* C20 as stated: the aggregation is parallel when there is more than one
\* chain or a chain of non-joined rows, and a single aggregator only over
\* exactly one chain with an empty side channel.
C20_ParallelIfSideChannel ==
    [][AggregationStep =>
          LET head == pipeline'.streams[1]
          IN  IF ChainsToAggregate > 1 \/ NonJoinedToAggregate > 0
              THEN head.op = "ParallelAggregating"
              ELSE head.op = "Aggregating"
      ]_vars

\* C20: the aggregation is parallel, fed by all the chains of both lists,
\* exactly when there is more than one main chain; over one main chain it is a
\* single aggregator that reads the concatenation of that chain and of the
\* chain of non-joined rows if there is one.  Either way one chain is left
\* and the side channel is empty.
C20_ParallelIffSeveralMain ==
    [][AggregationStep =>
          LET head == pipeline'.streams[1]
          IN  /\ Len(pipeline'.streams) = 1
              /\ pipeline'.streams_with_non_joined_data = <<>>
              /\ IF ChainsToAggregate > 1
                 THEN /\ head.op = "ParallelAggregating"
                      /\ Len(head.in) = ChainsToAggregate + NonJoinedToAggregate
                 ELSE /\ head.op = "Aggregating"
                      /\ Len(head.in) = 1
                      /\ head.in[1].op = "Concat"
                      /\ Len(head.in[1].in) = 1 + NonJoinedToAggregate
              /\ \A i \in 1..Len(pipeline.streams) :
                     \E n \in SubNodes(head) : n = pipeline.streams[i]
              /\ NonJoinedToAggregate = 1 => \E n \in SubNodes(head) : n.op = "NonJoined"
      ]_vars

C20_Witness ==
    /\ pc = "first_done"
    /\ b.to_stage > FetchColumns
    /\ loc.expressions.first_stage /\ loc.expressions.need_aggregate
    /\ q.join = "Full"
    /\ pipeline.streams[1].op = "Aggregating"
    /\ Len(pipeline.streams[1].in[1].in) = 2

\* the stages of an aggregating build that goes beyond FetchColumns have run
AggregatingBuilt ==
    /\ pc \in {"second_done", "built", "done"}
    /\ b.to_stage > FetchColumns
    /\ loc.expressions.need_aggregate

PartialAggregation == NodesOf("Aggregating") \cup NodesOf("ParallelAggregating")

MergeOfAggregates ==
    NodesOf("MergingAggregated") \cup NodesOf("MergingAggregatedMemoryEfficient")

\* what C21 says of every pair of stages
PartialXorMerge ==
    AggregatingBuilt =>
        /\ PartialAggregation # {} <=> loc.expressions.first_stage
        /\ MergeOfAggregates # {} <=>
               loc.expressions.second_stage /\ ~loc.expressions.first_stage
        /\ PartialAggregation = {} \/ MergeOfAggregates = {}
        /\ Cardinality(PartialAggregation \cup MergeOfAggregates) <= 1

\* the merge of the second stage leaves one chain, fed by all the chains the
\* stage started with, and an empty side channel
MergeStep ==
    SecondStageStep /\ loc.expressions.need_aggregate /\ ~loc.expressions.first_stage =>
        LET m == mergeAggregated(pipeline, self.settings, self.max_streams,
                                 loc.expressions,
                                 aggregate_overflow_row(q, self.settings, loc.expressions),
                                 aggregate_final(q, loc.expressions, b.to_stage))
        IN  /\ Len(m.streams) = 1
            /\ m.streams_with_non_joined_data = <<>>
            /\ m.streams[1] \in NodesIn(pipeline')
            /\ \A i \in 1..Len(pipeline.streams) :
                   pipeline.streams[i] \in SubNodes(m.streams[1])

\* C21 as stated: partial aggregation iff first_stage, merge iff second_stage
\* without first_stage, never both, and exactly one of them in every build
\* with to_stage = Complete.
C21_ExactlyOneWhenComplete ==
    /\ PartialXorMerge
    /\ AggregatingBuilt /\ b.to_stage = Complete =>
           Cardinality(PartialAggregation \cup MergeOfAggregates) = 1

\* C21: in an aggregating build beyond FetchColumns the partial aggregation
\* is attached iff first_stage holds and the merge of the partial aggregates
\* iff second_stage holds and first_stage does not; no build has both; a build
\* with to_stage = Complete has exactly one of them when the source delivered
\* less than Complete and none when it delivered Complete; and the merge, like
\* the aggregation, leaves one chain and an empty side channel.
C21_PartialOrMerge ==
    /\ []PartialXorMerge
    /\ [](AggregatingBuilt /\ b.to_stage = Complete =>
            Cardinality(PartialAggregation \cup MergeOfAggregates)
                = Bit(loc.from_stage < Complete))
    /\ [][MergeStep]_vars
    /\ [][AggregationStep =>
            Len(pipeline'.streams) = 1
            /\ pipeline'.streams_with_non_joined_data = <<>>]_vars

C21_Witness ==
    /\ AggregatingBuilt
    /\ pc = "second_done"
    /\ loc.from_stage = WithMergeableState
    /\ sto.read_streams > 1
    /\ MergeOfAggregates # {}
    /\ Len(pipeline.streams) = 1

\* the source has done the whole query: nothing is aggregated or merged
C21_WitnessComplete ==
    /\ AggregatingBuilt
    /\ b.to_stage = Complete
    /\ loc.from_stage = Complete
    /\ PartialAggregation \cup MergeOfAggregates = {}

\* the second stage of an aggregating query has run
AggregatedSecondStage ==
    SecondStageBuilt /\ loc.expressions.need_aggregate

\* the aggregates are finalized at once
Finalizes == b.to_stage > WithMergeableState /\ ~q.totals

HavingFilters == {n \in NodesOf("Filter") : n.tag = "having"}

\* C22: after the second stage of an aggregating query a TotalsHaving stream
\* is in the chain iff the aggregates were not finalized at once (they are iff
\* to_stage > WithMergeableState and the query has no WITH TOTALS), and it
\* filters by HAVING iff the query has HAVING; a Filter by HAVING is in the
\* chain iff they were finalized and the query has HAVING; there is at most
\* one stream of the two kinds; and the aggregating or merging stream was
\* built with the final flag exactly when the aggregates are finalized.
C22_TotalsOrHaving ==
    AggregatedSecondStage =>
        /\ NodesOf("TotalsHaving") # {} <=> ~Finalizes
        /\ \A n \in NodesOf("TotalsHaving") : n.tag = "having" <=> q.having
        /\ HavingFilters # {} <=> Finalizes /\ q.having
        /\ Cardinality(NodesOf("TotalsHaving") \cup HavingFilters) <= 1
        /\ \A n \in PartialAggregation \cup MergeOfAggregates :
               n.arg[1] = Bit(Finalizes)

C22_Witness ==
    /\ AggregatedSecondStage
    /\ q.having /\ ~q.totals
    /\ HavingFilters # {}
    /\ NodesOf("TotalsHaving") = {}

C22_WitnessTotals ==
    /\ AggregatedSecondStage
    /\ q.having /\ q.totals
    /\ HavingFilters = {}
    /\ \E n \in NodesOf("TotalsHaving") : n.tag = "having"

\* a sort of the build lies below n: n was attached after the ordering
AfterOrdering(n) ==
    \E m \in SubNodes(n) :
        m.op \in {"PartialSorting", "MergeSorting", "MergingSorted"}

\* the DISTINCT passes of the build and of the builds of the shards
DistinctPasses ==
    NodesOf("Distinct")
    \cup (IF sto.processed_stage = WithMergeableState /\ NodesOf("Remote") # {}
          THEN UNION {{n \in SubNodes(RemoteStream(i)) : n.op = "Distinct"} :
                         i \in 1..sto.read_streams}
          ELSE {})

DistinctValues == DistinctRows(Flat(data), {})

\* the bound of the DISTINCT passes: offset + length on a pass that no ORDER
\* BY follows, none (0) on a pass before the ORDER BY
DistinctBound(sum) ==
    pc \in {"second_done", "built", "done", "pulled"} =>
        \A n \in DistinctPasses :
            n.arg[1] = IF ~q.order \/ AfterOrdering(n) THEN sum ELSE 0

\* the rows of SELECT DISTINCT ... [ORDER BY ...] [LIMIT ...]
DistinctResult ==
    pc = "pulled" =>
        LET limited(s) == IF q.has_limit
                          THEN LimitRows(s, q.limit_length, q.limit_offset) ELSE s
        IN  IF q.order
            THEN rows = limited(SortRows(DistinctValues, getSortDescription(q)))
            ELSE /\ Len(rows) = Len(limited(DistinctValues))
                 /\ SeqToSet(rows) \subseteq SeqToSet(DistinctValues)
                 /\ Cardinality(SeqToSet(rows)) = Len(rows)

\* C23: a DISTINCT pass has the bound offset + length exactly when the query
\* has no ORDER BY or the pass comes after the ordering, and no bound when it
\* precedes the ORDER BY; and the passes discard no row of the result: the
\* query yields the distinct rows, in the order of ORDER BY, that lie at the
\* positions of the LIMIT.
C23_DistinctBound ==
    /\ DistinctBound(IF q.has_limit THEN q.limit_offset + q.limit_length ELSE 0)
    /\ DistinctResult

\* the same with the bound as executeDistinct computes it, for the queries
\* whose offset + length fits size_t
C23_DistinctBoundInRange ==
    /\ DistinctBound(LimitSum(q))
    /\ q.limit_offset + q.limit_length <= SizeMax => DistinctResult

\* the read-till-end flag of the Limit streams after the second stage: flag
\* on the Limit heading each chain, none on any Limit below
LimitFlags(flag) ==
    SecondStageBuilt /\ q.has_limit =>
        /\ \A i \in 1..Len(AllChains) :
               /\ AllChains[i].op = "Limit"
               /\ AllChains[i].arg[3] = Bit(flag)
               /\ \A n \in SubNodes(AllChains[i].in[1]) :
                      n.op = "Limit" => n.arg[3] = 0

\* C24 as stated: the final Limit reads till the end iff the query has WITH
\* TOTALS and no ORDER BY, or a select nested in FROM has WITH TOTALS and no
\* ORDER BY of its own; the preliminary Limit never does.
C24_FlagForSubqueryWithoutOrder ==
    LimitFlags(\/ q.totals /\ ~q.order
               \/ \E i \in 1..Len(q.from_totals) :
                      q.from_totals[i] /\ ~q.from_order[i])

\* C24: the final Limit reads till the end iff the query has WITH TOTALS and
\* no ORDER BY, or the query has no WITH TOTALS and a select nested in FROM, at
\* any depth, has WITH TOTALS, whatever is ordered; the preliminary Limit
\* never does.
C24_ReadTillEnd ==
    LimitFlags(\/ q.totals /\ ~q.order
               \/ ~q.totals /\ \E i \in 1..Len(q.from_totals) : q.from_totals[i])

C24_Witness ==
    /\ SecondStageBuilt /\ q.has_limit
    /\ ~q.totals /\ q.order
    /\ Len(q.from_totals) = 2 /\ ~q.from_totals[1] /\ q.from_totals[2]
    /\ q.from_order[2]
    /\ pipeline.streams[1].op = "Limit"
    /\ pipeline.streams[1].arg[3] = 1

\* with WITH TOTALS and ORDER BY at this level the nested WITH TOTALS does not
\* count
C24_WitnessOwnTotals ==
    /\ SecondStageBuilt /\ q.has_limit
    /\ q.totals /\ q.order
    /\ Len(q.from_totals) = 1 /\ q.from_totals[1] /\ ~q.from_order[1]
    /\ pipeline.streams[1].op = "Limit"
    /\ pipeline.streams[1].arg[3] = 0

\* the preliminary Limit on several chains
C24_WitnessPreLimit ==
    /\ SecondStageBuilt /\ q.has_limit
    /\ \E n \in NodesOf("Union") : \A i \in 1..Len(n.in) : n.in[i].op = "Limit"

\* executeFetchColumns has read the table
TableFetched == pc = "fetched" /\ ReadsTable

\* the number of streams the settings ask for
ConfiguredStreams ==
    IF sto.isRemote THEN st.max_distributed_connections
    ELSE IF st.max_threads > 1
    THEN st.max_threads * st.max_streams_to_max_threads_ratio
    ELSE st.max_threads

\* what the fetch hands to the read of the table: max_block_size and
\* max_streams are the given ones when shrunk, the configured ones otherwise
BatchAndStreams(shrunk, size) ==
    TableFetched =>
        IF shrunk
        THEN loc.max_block_size = size /\ self.max_streams = 1
        ELSE loc.max_block_size = st.max_block_size
             /\ self.max_streams = ConfiguredStreams

C25_WitnessPrewhere ==
    /\ TableFetched
    /\ q.has_limit /\ q.limit_length = 1 /\ q.prewhere
    /\ st.max_threads > 1
    /\ loc.max_block_size = st.max_block_size
    /\ self.max_streams > 1

\* the rows the final LIMIT needs from what precedes it
RowsNeeded == q.limit_offset + q.limit_length

\* the bounds the build derives from the LIMIT: offset + length of every Limit
\* stream, the limit of every sorting and DISTINCT stream (0 is no limit), the
\* batch size of the fetch when it is not the configured one; and the rows of
\* the result
BoundsCoverLimit ==
    /\ pc \in {"fetched", "analyzed", "first_done", "second_done", "built",
               "done", "pulled"} /\ q.has_limit =>
          /\ \A n \in NodesOf("Limit") : n.arg[1] + n.arg[2] >= RowsNeeded
          /\ \A n \in NodesOf("PartialSorting") \cup NodesOf("MergeSorting")
                     \cup NodesOf("MergingSorted") \cup NodesOf("Distinct") :
                 n.arg[1] = 0 \/ n.arg[1] >= RowsNeeded
          /\ loc.max_block_size = st.max_block_size
                \/ loc.max_block_size >= RowsNeeded
    /\ pc = "pulled" /\ q.has_limit =>
          Len(rows) = IF Available > q.limit_offset
                      THEN Min(q.limit_length, Available - q.limit_offset)
                      ELSE 0

\* C26: for every offset and length of a LIMIT, the bound offset + length of
\* the preliminary LIMIT, of the sorting, of DISTINCT and of the batch size of
\* the fetch does not wrap around: each is at least offset + length, and no row
\* of the final result is cut by a bounded step.
C26_BoundsCoverLimit == BoundsCoverLimit

\* the same for the offsets and lengths whose sum fits size_t
C26_BoundsCoverLimitInRange == RowsNeeded <= SizeMax => BoundsCoverLimit

\* C27: for every query, LIMIT 0 included, and every positive max_block_size
\* of the settings, the max_block_size that the fetch passes to the read of
\* the table is at least 1.
C27_BatchAtLeastOne ==
    (TableFetched /\ st.max_block_size > 0) => loc.max_block_size >= 1

\* the same for the queries whose offset + length, as size_t adds them, is
\* not 0
C27_BatchAtLeastOneForNonZeroSum ==
    (TableFetched /\ st.max_block_size > 0 /\ LimitSum(q) # 0) =>
        loc.max_block_size >= 1

\* the call has returned
Returned == pc = "returned"

\* a step that calls get_and_lock_storage
TryStep == loc'.tries = loc.tries + 1

\* what a returned call has handed out
ServedAligned ==
    Returned =>
        /\ self.storage = "table"
        /\ self.table_lock
        /\ loc.ok
        /\ loc.storage_schema_version <= loc.query_schema_version
        /\ loc.syncs = 0 =>
              \/ loc.storage_schema_version = loc.query_schema_version
              \/ loc.global_schema_version >= loc.query_schema_version

\* a try that finds the storage at a version later than the query's
NewerStorageRejected ==
    (/\ TryStep
     /\ sto.exists /\ sto.manageable
     /\ sto.schema_version > loc.query_schema_version) =>
        /\ pc' = "failed"
        /\ err' = "SchemaVersionError"
        /\ self'.storage = "null" /\ ~self'.table_lock

\* C28: getAndLockStorageWithSchemaVersion sets storage and table_lock only
\* for a storage whose schema version is at most the query's and, when it has
\* not synced the schemas, only if that version equals the query's or the
\* global version read at the start of the call is at least the query's; a
\* try that finds the storage at a later version than the query's ends the
\* call with the schema version error, the first try as well as the one after
\* the sync.
C28_ServedOnlyAligned == []ServedAligned /\ [][NewerStorageRejected]_vars

\* served without a sync by a storage older than the query
C28_Witness ==
    /\ Returned
    /\ loc.syncs = 0
    /\ loc.storage_schema_version < loc.query_schema_version
    /\ loc.global_schema_version >= loc.query_schema_version

\* rejected after the sync
C28_WitnessNewerAfterSync ==
    /\ pc = "failed" /\ err = "SchemaVersionError"
    /\ loc.syncs = 1 /\ loc.tries = 2

\* served after the sync with the global version still behind the query
C28_WitnessSynced ==
    /\ Returned /\ loc.syncs = 1
    /\ sto.global_schema_version < loc.query_schema_version

\* the call is over
CallOver == pc \in {"returned", "failed"}

SyncStep == loc'.syncs # loc.syncs

AtMostOneSync ==
    /\ loc.syncs <= 1
    /\ loc.tries <= 2
    /\ loc.schema_synced => loc.syncs = 1

SyncOnlyAfterFailedFirstTry ==
    SyncStep =>
        /\ pc = "first_failed"
        /\ loc.tries = 1 /\ ~loc.ok /\ loc.syncs = 0
        /\ self.storage = "null" /\ ~self.table_lock

SecondTryDecides ==
    (CallOver /\ loc.schema_synced) =>
        \/ Returned /\ self.storage = "table" /\ self.table_lock
        \/ /\ pc = "failed"
           /\ err \in {"UNKNOWN_TABLE", "LOGICAL_ERROR", "SchemaVersionError"}
           /\ self.storage = "null" /\ ~self.table_lock

NeverReturnsUnset ==
    /\ err # "UNKNOWN_EXCEPTION"
    /\ Returned => self.storage # "null" /\ self.table_lock

\* C29: a call of getAndLockStorageWithSchemaVersion syncs the schemas at
\* most once, and only after a first try that failed; the try after the sync
\* ends with storage and table_lock set or with the error of a missing table,
\* of a storage that is not manageable or of a schema version newer than the
\* query's; the error "Shouldn't reach here" is never thrown and the call
\* never returns with storage or table_lock unset.
C29_OneSyncThenDecided ==
    /\ [](AtMostOneSync /\ SecondTryDecides /\ NeverReturnsUnset)
    /\ [][SyncOnlyAfterFailedFirstTry]_vars
    /\ (pc = "synced" ~> CallOver)

\* the table is gone after the sync
C29_Witness ==
    /\ pc = "failed" /\ err = "UNKNOWN_TABLE"
    /\ loc.schema_synced /\ loc.syncs = 1 /\ loc.tries = 2

C29_WitnessReturned ==
    /\ Returned /\ loc.schema_synced /\ loc.tries = 2
    /\ self.storage = "table" /\ self.table_lock

\* execute() or executeWithMultipleStreams() has returned
BuildReturned == pc = "done" /\ b.entry # "getSampleBlock"

\* the first stage has put a stream of non-joined data into the side channel
SideChannelUsed ==
    /\ q.join \in {"Full", "Right"}
    /\ loc.expressions.first_stage /\ loc.expressions.has_join

NonJoinedIn(chains) ==
    \E i \in 1..Len(chains) : \E n \in SubNodes(chains[i]) : n.op = "NonJoined"

\* the side channel never holds more than one chain, it is empty when the
\* entry point returns, and what was put into it is below a returned chain
SideChannelFolded ==
    /\ Len(pipeline.streams_with_non_joined_data) <= 1
    /\ BuildReturned =>
          /\ pipeline.streams_with_non_joined_data = <<>>
          /\ SideChannelUsed => NonJoinedIn(out)

\* C30: for every query and to_stage, when execute() or
\* executeWithMultipleStreams() returns, the chain that a FULL or RIGHT join
\* put into the side channel of non-joined data is part of the returned
\* chains; the side channel holds at most one chain during the build and none
\* is left outside the result.
C30_SideChannelFolded == SideChannelFolded

\* a build of the first stage alone, returned as several streams: the side
\* channel is folded by the Union below the CreatingSets stream
C30_Witness ==
    /\ BuildReturned /\ SideChannelUsed
    /\ b.entry = "executeWithMultipleStreams"
    /\ ~loc.expressions.second_stage
    /\ ~q.has_aggregation /\ ~q.order
    /\ sto.read_streams > 1
    /\ Len(out) = 1
    /\ out[1].op = "CreatingSets"
    /\ NonJoinedIn(out)

\* a build of both stages: the second stage merges the streams because the
\* side channel is not empty
C30_WitnessSecondStage ==
    /\ pc = "second_done" /\ SideChannelUsed
    /\ loc.expressions.second_stage
    /\ ~q.has_aggregation /\ ~q.order /\ ~q.distinct /\ ~q.has_limit
    /\ pipeline.streams_with_non_joined_data = <<>>
    /\ NonJoinedIn(pipeline.streams)

C14_Witness ==
    /\ pc = "reading"
    /\ run.consumer = "failed"
    /\ err = "EXCEPTION"
    /\ AllStopped(run.chains)
    /\ AnyFailed
    /\ \E i \in 1..Len(run.chains) : run.chains[i].status = "cancelled"
    /\ run.received > 0

====
